---- MODULE Spec2Model ----
(***************************************************************************)
(* Model of the postpartum triage service: the case record store           *)
(* (src/postpartum/store.ts), the patch handlers of the web server         *)
(* (src/postpartum/web/server.ts) and the decision engine                  *)
(* (src/postpartum/evaluator.ts).                                          *)
(*                                                                         *)
(* JavaScript values are encoded as follows.  Every scalar is a string     *)
(* token; Absent is a key that is not in an object, Undef a key that is    *)
(* present with the value undefined (it exists only in memory:             *)
(* JSON.stringify drops it).  Timestamps are integers, NoTime when absent. *)
(***************************************************************************)
EXTENDS Integers, Sequences, FiniteSets, TLC

\* ------------------------------------------------------------------ bounds
MaxCases == 2
MaxChanges == 2
MaxClock == 1
MaxLines == 3
MaxSessions == 2
MaxTicks == 2

\* ------------------------------------------------------- encoding of values
Absent == "<absent>"
Undef == "<undefined>"
NoTime == -1
NoId == ""
LegacyId == "legacy-1"
LegacyChangeId == "legacy-change-1"

\* The processes that hold a connection to the database file.
Conns == {"p1", "p2"}

\* The values randomUUID can return for a case, and the ids requests can name.
EventIdOf(i) == "case-" \o ToString(i)
CreatedIds == {EventIdOf(i) : i \in 1..MaxCases}
AllIds == CreatedIds \cup {LegacyId}

\* The editor name carried by the session of each connection.
EditorOf(p) == IF p = "p1" THEN "ops-a" ELSE "ops-b"

IsNullish(v) == v = Absent \/ v = Undef

\* a ?? b
Coalesce(a, b) == IF IsNullish(a) THEN b ELSE a

OutcomeFields == {"care_sought", "care_time", "care_type", "resolved", "notes"}
WorkflowFields == {"status", "owner", "follow_up_due_at", "last_contact_at"}

NoOutcome ==
  [present |-> FALSE, care_sought |-> Absent, care_time |-> Absent,
   care_type |-> Absent, resolved |-> Absent, notes |-> Absent,
   updated_at |-> NoTime, updated_by |-> Absent]

NoWorkflow ==
  [present |-> FALSE, status |-> Absent, owner |-> Absent,
   follow_up_due_at |-> Absent, last_contact_at |-> Absent,
   updated_at |-> NoTime, updated_by |-> Absent]

NoEvent ==
  [eventId |-> NoId, timestamp |-> NoTime, finalLevel |-> Absent,
   baseLevel |-> Absent, isEmergency |-> FALSE, escalatedByUncertainty |-> FALSE,
   primaryRoute |-> Absent, timeframe |-> Absent,
   scoreBreakdown |-> [mentalHealth |-> 0, pelvicFloorAndRecovery |-> 0,
                       historyAndContext |-> 0, total |-> 0],
   confidenceBucket |-> Absent, missingCriticalInputs |-> 0,
   firedRedFlagIds |-> <<>>, uncertaintyReasons |-> <<>>,
   outcome |-> NoOutcome, workflow |-> NoWorkflow,
   last_updated_by |-> Absent, last_updated_at |-> NoTime]

EmptyPatch ==
  [care_sought |-> Absent, care_time |-> Absent, care_type |-> Absent,
   resolved |-> Absent, notes |-> Absent, status |-> Absent, owner |-> Absent,
   follow_up_due_at |-> Absent, last_contact_at |-> Absent]

PatchFields == OutcomeFields \cup WorkflowFields

\* ----------------------------------------------------------- JSON round trip
DropUndef(v) == IF v = Undef THEN Absent ELSE v

StringifyOutcome(o) ==
  IF ~o.present THEN NoOutcome
  ELSE [o EXCEPT !.care_sought = DropUndef(@), !.care_time = DropUndef(@),
                 !.care_type = DropUndef(@), !.resolved = DropUndef(@),
                 !.notes = DropUndef(@), !.updated_by = DropUndef(@)]

StringifyWorkflow(w) ==
  IF ~w.present THEN NoWorkflow
  ELSE [w EXCEPT !.status = DropUndef(@), !.owner = DropUndef(@),
                 !.follow_up_due_at = DropUndef(@),
                 !.last_contact_at = DropUndef(@), !.updated_by = DropUndef(@)]

\* JSON.parse(JSON.stringify(event)): keys whose value is undefined vanish.
StringifyEvent(e) ==
  [e EXCEPT !.outcome = StringifyOutcome(@), !.workflow = StringifyWorkflow(@),
            !.last_updated_by = DropUndef(@)]

StringifyPatch(p) ==
  [p EXCEPT !.care_sought = DropUndef(@), !.care_time = DropUndef(@),
            !.care_type = DropUndef(@), !.resolved = DropUndef(@),
            !.notes = DropUndef(@), !.status = DropUndef(@), !.owner = DropUndef(@),
            !.follow_up_due_at = DropUndef(@), !.last_contact_at = DropUndef(@)]

\* ------------------------------------------------------------ normalizeEvent
\* Faulty variant: an event without workflow is returned without one.
normalizeEventNoDefault(event) ==
  LET normalizedOutcome ==
        IF event.outcome.present
        THEN [event.outcome EXCEPT
                !.updated_by = Coalesce(event.outcome.updated_by,
                                 Coalesce(event.last_updated_by, "system"))]
        ELSE NoOutcome
  IN IF event.workflow.present
     THEN [event EXCEPT
             !.outcome = normalizedOutcome,
             !.workflow = [event.workflow EXCEPT
                !.updated_by = Coalesce(event.workflow.updated_by,
                                 Coalesce(event.last_updated_by, "system"))]]
     ELSE [event EXCEPT !.outcome = normalizedOutcome]

normalizeEvent(event) ==
  LET normalizedOutcome ==
        IF event.outcome.present
        THEN [event.outcome EXCEPT
                !.updated_by = Coalesce(event.outcome.updated_by,
                                 Coalesce(event.last_updated_by, "system"))]
        ELSE NoOutcome
  IN IF event.workflow.present
     THEN [event EXCEPT
             !.outcome = normalizedOutcome,
             !.workflow = [event.workflow EXCEPT
                !.updated_by = Coalesce(event.workflow.updated_by,
                                 Coalesce(event.last_updated_by, "system"))]]
     ELSE [event EXCEPT
             !.outcome = normalizedOutcome,
             !.workflow = [NoWorkflow EXCEPT
                !.present = TRUE,
                !.status = IF event.outcome.present /\ event.outcome.resolved = "true"
                           THEN "CLOSED" ELSE "NEW",
                !.updated_at = event.timestamp,
                !.updated_by = "system"]]

\* ------------------------------------------------ request payloads (raw JSON)
\* A raw JSON value: k is its JavaScript type, s its content as a token.
Missing == [k |-> "missing", s |-> ""]
Null == [k |-> "null", s |-> ""]
Bool(b) == [k |-> "boolean", s |-> b]
Num(n) == [k |-> "number", s |-> n]
Str(t) == [k |-> "string", s |-> t]

\* String.prototype.trim on the strings of the model.
Trim(s) ==
  CASE s = "  " -> ""
    [] s = " obgyn " -> "obgyn"
    [] s = " waiting " -> "waiting"
    [] s = " ops " -> "ops"
    [] OTHER -> s

\* String.prototype.toUpperCase on the strings of the model.
ToUpperCase(s) ==
  CASE s = "obgyn" -> "OBGYN"
    [] s = "waiting" -> "WAITING"
    [] s = "closed" -> "CLOSED"
    [] s = "ops" -> "OPS"
    [] s = "abc" -> "ABC"
    [] s = "2h" -> "2H"
    [] s = "not-a-date" -> "NOT-A-DATE"
    [] OTHER -> s

\* Number.parseFloat: the longest numeric prefix, "NaN" when there is none.
ParseFloat(s) ==
  CASE s = "2" -> "2"
    [] s = "2h" -> "2"
    [] s = "0" -> "0"
    [] s = "-1" -> "-1"
    [] OTHER -> "NaN"

NumIsFinite(n) == n # "NaN"
NumIsNonNegative(n) == n \in {"0", "2"}

\* new Date(s).toISOString(); "Invalid Date" when getTime() is NaN.
DateToISOString(s) ==
  CASE s = "2026-01-01" -> "2026-01-01T00:00:00.000Z"
    [] s = "2026-01-01T00:00:00.000Z" -> "2026-01-01T00:00:00.000Z"
    [] s = "2026" -> "2026-01-01T00:00:00.000Z"
    [] OTHER -> "Invalid Date"

CareTypes == {"EMERGENCY", "PSYCHIATRY", "OBGYN", "HAUSARZT", "MIDWIFE", "OTHER"}
Statuses == {"NEW", "IN_PROGRESS", "WAITING", "CLOSED"}

Ok(v) == [ok |-> TRUE, value |-> v]
Err == [ok |-> FALSE, value |-> Undef]

\* Faulty variant: any string is taken as a status.
parseStatusFieldLax(value) ==
  IF value.k # "string" THEN Err
  ELSE Ok(ToUpperCase(Trim(value.s)))

parseStatusField(value) ==
  IF value.k # "string" THEN Err
  ELSE LET raw == ToUpperCase(Trim(value.s))
       IN IF raw \in Statuses THEN Ok(raw) ELSE Err

parseCareTypeField(value) ==
  IF value.k = "null" THEN Ok(Undef)
  ELSE IF value.k # "string" THEN Err
  ELSE LET raw == ToUpperCase(Trim(value.s))
       IN IF raw = "" THEN Ok(Undef)
          ELSE IF raw \in CareTypes THEN Ok(raw) ELSE Err

parseNullableBooleanField(value) ==
  IF value.k = "null" THEN Ok(Undef)
  ELSE IF value.k = "boolean" THEN Ok(value.s)
  ELSE Err

\* Faulty variant: the sign of the number is not looked at.
parseNullableNumberFieldNoRange(value) ==
  IF value.k = "null" THEN Ok(Undef)
  ELSE IF value.k = "number" /\ NumIsFinite(value.s) THEN Ok(value.s)
  ELSE IF value.k = "string"
       THEN IF Trim(value.s) = "" THEN Ok(Undef)
            ELSE IF NumIsFinite(ParseFloat(value.s)) THEN Ok(ParseFloat(value.s))
            ELSE Err
  ELSE Err

parseNullableNumberField(value) ==
  IF value.k = "null" THEN Ok(Undef)
  ELSE IF value.k = "number" /\ NumIsFinite(value.s)
       THEN IF NumIsNonNegative(value.s) THEN Ok(value.s) ELSE Err
  ELSE IF value.k = "string"
       THEN IF Trim(value.s) = "" THEN Ok(Undef)
            ELSE IF NumIsFinite(ParseFloat(value.s)) /\ NumIsNonNegative(ParseFloat(value.s))
                 THEN Ok(ParseFloat(value.s))
            ELSE Err
  ELSE Err

parseNullableStringField(value) ==
  IF value.k = "null" THEN Ok(Undef)
  ELSE IF value.k # "string" THEN Err
  ELSE Ok(IF Trim(value.s) = "" THEN Undef ELSE Trim(value.s))

parseNullableIsoDateField(value) ==
  IF value.k = "null" THEN Ok(Undef)
  ELSE IF value.k # "string" THEN Err
  ELSE IF Trim(value.s) = "" THEN Ok(Undef)
  ELSE IF DateToISOString(Trim(value.s)) = "Invalid Date" THEN Err
  ELSE Ok(DateToISOString(Trim(value.s)))

\* hasOwn(record, key)
hasOwn(record, key) == record[key].k # "missing"

\* The fields are parsed in the order of the source; the first error ends the
\* normalization.  The result is [patch, error].
ParsedField(raw, f) ==
  CASE f \in {"care_sought", "resolved"} -> parseNullableBooleanField(raw[f])
    [] f = "care_time" -> parseNullableNumberField(raw[f])
    [] f = "care_type" -> parseCareTypeField(raw[f])
    [] f \in {"notes", "owner"} -> parseNullableStringField(raw[f])
    [] f = "status" -> parseStatusField(raw[f])
    [] OTHER -> parseNullableIsoDateField(raw[f])

PatchValue(raw, fields, f) ==
  IF f \in fields /\ hasOwn(raw, f) THEN ParsedField(raw, f).value ELSE Absent

NormalizePatch(raw, fields) ==
  [patch |-> [care_sought |-> PatchValue(raw, fields, "care_sought"),
              care_time |-> PatchValue(raw, fields, "care_time"),
              care_type |-> PatchValue(raw, fields, "care_type"),
              resolved |-> PatchValue(raw, fields, "resolved"),
              notes |-> PatchValue(raw, fields, "notes"),
              status |-> PatchValue(raw, fields, "status"),
              owner |-> PatchValue(raw, fields, "owner"),
              follow_up_due_at |-> PatchValue(raw, fields, "follow_up_due_at"),
              last_contact_at |-> PatchValue(raw, fields, "last_contact_at")],
   error |-> \E f \in fields : hasOwn(raw, f) /\ ~ParsedField(raw, f).ok]

normalizeOutcomePatch(outcome) == NormalizePatch(outcome, OutcomeFields)

normalizeWorkflowPatch(workflow) == NormalizePatch(workflow, WorkflowFields)

\* Object.keys(patch).length
KeyCount(patch) == Cardinality({f \in PatchFields : patch[f] # Absent})

\* ------------------------------------------------------- sample request bodies
NoFields ==
  [care_sought |-> Missing, care_time |-> Missing, care_type |-> Missing,
   resolved |-> Missing, notes |-> Missing, status |-> Missing, owner |-> Missing,
   follow_up_due_at |-> Missing, last_contact_at |-> Missing]

\* The outcome object of a POST /api/postpartum/audit/outcome body.
OutcomeBody(name) ==
  CASE name = "o_full" ->
         [NoFields EXCEPT !.care_sought = Bool("true"), !.care_time = Num("2"),
                          !.care_type = Str("OBGYN"), !.notes = Str("Reached care quickly")]
    [] name = "o_resolved" -> [NoFields EXCEPT !.resolved = Bool("true")]
    [] name = "o_unresolved" ->
         [NoFields EXCEPT !.care_sought = Bool("false"), !.resolved = Bool("false")]
    [] name = "o_clear" -> [NoFields EXCEPT !.care_type = Null]
    [] name = "o_time_2h" -> [NoFields EXCEPT !.care_time = Str("2h")]
    [] name = "o_time_neg" -> [NoFields EXCEPT !.care_time = Num("-1")]
    [] name = "o_time_negstr" ->
         [NoFields EXCEPT !.care_sought = Bool("false"), !.care_time = Str("-1")]
    [] name = "o_time_abc" -> [NoFields EXCEPT !.care_time = Str("abc")]
    [] name = "o_time_bool" -> [NoFields EXCEPT !.care_time = Bool("true")]
    [] name = "o_type_bad" -> [NoFields EXCEPT !.care_type = Str("UNKNOWN_CLINIC")]
    [] OTHER -> NoFields

\* The workflow object of a POST /api/postpartum/audit/workflow body.
WorkflowBody(name) ==
  CASE name = "w_progress" ->
         [NoFields EXCEPT !.status = Str("IN_PROGRESS"), !.owner = Str(" ops ")]
    [] name = "w_waiting" -> [NoFields EXCEPT !.status = Str(" waiting ")]
    [] name = "w_new" -> [NoFields EXCEPT !.status = Str("NEW")]
    [] name = "w_closed" -> [NoFields EXCEPT !.status = Str("closed")]
    [] name = "w_due" -> [NoFields EXCEPT !.follow_up_due_at = Str("2026-01-01")]
    [] name = "w_status_bad" -> [NoFields EXCEPT !.status = Str("INVALID")]
    [] name = "w_status_null" -> [NoFields EXCEPT !.status = Null]
    [] name = "w_due_bad" ->
         [NoFields EXCEPT !.owner = Str("ops"), !.follow_up_due_at = Str("not-a-date")]
    [] name = "w_contact_bad" -> [NoFields EXCEPT !.last_contact_at = Str("not-a-date")]
    [] OTHER -> NoFields

OutcomeBodies ==
  {"o_full", "o_resolved", "o_clear", "o_time_2h", "o_time_neg", "o_time_negstr",
   "o_time_abc", "o_time_bool", "o_type_bad", "o_empty"}

WorkflowBodies ==
  {"w_progress", "w_waiting", "w_due", "w_status_bad", "w_status_null", "w_due_bad",
   "w_contact_bad", "w_empty"}

BodyOf(changeType, name) ==
  IF changeType = "OUTCOME_UPDATE" THEN OutcomeBody(name) ELSE WorkflowBody(name)

BodiesOf(changeType) ==
  IF changeType = "OUTCOME_UPDATE" THEN OutcomeBodies ELSE WorkflowBodies

ChangeTypes == {"OUTCOME_UPDATE", "WORKFLOW_UPDATE"}

\* ------------------------------------------------------------ decision engine
EMERGENCY == "EMERGENCY_NOW"
URGENT == "URGENT_SAME_DAY"
ROUTINE == "ROUTINE_FOLLOW_UP"

NoWeeks == -1

RedFlagFields ==
  {"suicidalIdeationNow", "suicidalIntentOrPlan", "thoughtsOfHarmingBaby",
   "psychosisWarningSigns", "heavyBleedingEmergencyPattern", "highFeverAndSeverePain",
   "syncopeOrCollapse", "chestPainOrSevereBreathlessness"}

MentalFields ==
  {"depressedMoodMostDays", "anxietyOrPanicMostDays", "sleepSeverelyDisruptedNotByBaby",
   "bondingDifficulty", "anhedonia", "functionalImpairmentMental"}

PelvicFields ==
  {"urinaryIncontinenceFrequent", "fecalIncontinenceAny", "urinaryRetention",
   "severePerinealPainPersistent", "perinealWoundConcerns", "prolapseBulgeSymptoms",
   "dyspareuniaPersistentSevere", "functionalImpairmentPelvic"}

HistoryFields ==
  {"priorDepressionOrAnxiety", "priorPostpartumDepression",
   "birthTraumaOrEmergencyDelivery", "oasisHistory", "poorSocialSupport"}

MetaFields == {"cannotAnswerCriticalQuestions", "userUncertainOnSafetyQuestions"}

BoolFields == RedFlagFields \cup MentalFields \cup PelvicFields \cup HistoryFields \cup MetaFields

\* A PostpartumInput: b maps every boolean field to "true", "false" or Absent.
BlankInput ==
  [b |-> [f \in BoolFields |-> Absent], weeksPostpartum |-> NoWeeks,
   inconsistencyLevel |-> Absent]

\* Boolean(v) of an optional boolean field.
Truthy(v) == v = "true"

RedFlagIds == <<"PP_RF001", "PP_RF002", "PP_RF003", "PP_RF004", "PP_RF005", "PP_RF006">>

SeqSum(w, fs, input) ==
  LET RECURSIVE Acc(_)
      Acc(S) == IF S = {} THEN 0
                ELSE LET f == CHOOSE x \in S : TRUE
                     IN (IF Truthy(input.b[f]) THEN w[f] ELSE 0) + Acc(S \ {f})
  IN Acc(fs)

firedMapAllOf(input, id) ==
  CASE id = "PP_RF001" -> Truthy(input.b.suicidalIdeationNow) /\ Truthy(input.b.suicidalIntentOrPlan)
    [] id = "PP_RF002" -> Truthy(input.b.thoughtsOfHarmingBaby)
    [] id = "PP_RF003" -> Truthy(input.b.psychosisWarningSigns)
    [] id = "PP_RF004" -> Truthy(input.b.heavyBleedingEmergencyPattern)
    [] id = "PP_RF005" -> Truthy(input.b.highFeverAndSeverePain)
    [] id = "PP_RF006" -> Truthy(input.b.syncopeOrCollapse)
                          /\ Truthy(input.b.chestPainOrSevereBreathlessness)
    [] OTHER -> FALSE

firedMap(input, id) ==
  CASE id = "PP_RF001" -> Truthy(input.b.suicidalIdeationNow) /\ Truthy(input.b.suicidalIntentOrPlan)
    [] id = "PP_RF002" -> Truthy(input.b.thoughtsOfHarmingBaby)
    [] id = "PP_RF003" -> Truthy(input.b.psychosisWarningSigns)
    [] id = "PP_RF004" -> Truthy(input.b.heavyBleedingEmergencyPattern)
    [] id = "PP_RF005" -> Truthy(input.b.highFeverAndSeverePain)
    [] id = "PP_RF006" -> Truthy(input.b.syncopeOrCollapse)
                          \/ Truthy(input.b.chestPainOrSevereBreathlessness)
    [] OTHER -> FALSE

\* Faulty variant: only the fired flags are listed.
evaluateRedFlagsSparse(input, rules) ==
  SelectSeq([i \in 1..Len(rules.redFlagRules) |->
               [id |-> rules.redFlagRules[i],
                fired |-> firedMap(input, rules.redFlagRules[i])]],
            LAMBDA flag : flag.fired)

evaluateRedFlags(input, rules) ==
  [i \in 1..Len(rules.redFlagRules) |->
     [id |-> rules.redFlagRules[i], fired |-> firedMap(input, rules.redFlagRules[i])]]

\* Faulty variant: the sixth week counts as late.
isLateOnsetFromSix(input) == input.weeksPostpartum # NoWeeks /\ input.weeksPostpartum >= 6

isLateOnset(input) == input.weeksPostpartum # NoWeeks /\ input.weeksPostpartum > 6

\* Faulty variant: the total leaves the history score out.
calculateScoreTotalOfTwo(input, rules) ==
  LET w == rules.scoring
      mentalHealth ==
        SeqSum(w, MentalFields, input)
        + (IF isLateOnset(input)
              /\ (Truthy(input.b.depressedMoodMostDays)
                  \/ Truthy(input.b.anxietyOrPanicMostDays)
                  \/ Truthy(input.b.anhedonia))
           THEN w.lateOnsetAfter6Weeks ELSE 0)
      pelvicFloorAndRecovery == SeqSum(w, PelvicFields, input)
      historyAndContext == SeqSum(w, HistoryFields, input)
  IN [mentalHealth |-> mentalHealth,
      pelvicFloorAndRecovery |-> pelvicFloorAndRecovery,
      historyAndContext |-> historyAndContext,
      total |-> mentalHealth + pelvicFloorAndRecovery]

calculateScore(input, rules) ==
  LET w == rules.scoring
      mentalHealth ==
        SeqSum(w, MentalFields, input)
        + (IF isLateOnset(input)
              /\ (Truthy(input.b.depressedMoodMostDays)
                  \/ Truthy(input.b.anxietyOrPanicMostDays)
                  \/ Truthy(input.b.anhedonia))
           THEN w.lateOnsetAfter6Weeks ELSE 0)
      pelvicFloorAndRecovery == SeqSum(w, PelvicFields, input)
      historyAndContext == SeqSum(w, HistoryFields, input)
  IN [mentalHealth |-> mentalHealth,
      pelvicFloorAndRecovery |-> pelvicFloorAndRecovery,
      historyAndContext |-> historyAndContext,
      total |-> mentalHealth + pelvicFloorAndRecovery + historyAndContext]

\* Faulty variant: only an answer of true counts as given.
isCriticalInputPresentTruthy(key, input) ==
  IF key = "functionalImpairmentOverall"
  THEN Truthy(input.b.functionalImpairmentMental)
       \/ Truthy(input.b.functionalImpairmentPelvic)
  ELSE IF key = "weeksPostpartum" THEN input.weeksPostpartum # NoWeeks
  ELSE IF key = "inconsistencyLevel" THEN input.inconsistencyLevel # Absent
  ELSE IF key \in BoolFields THEN Truthy(input.b[key])
  ELSE FALSE

isCriticalInputPresent(key, input) ==
  IF key = "functionalImpairmentOverall"
  THEN input.b.functionalImpairmentMental # Absent
       \/ input.b.functionalImpairmentPelvic # Absent
  ELSE IF key = "weeksPostpartum" THEN input.weeksPostpartum # NoWeeks
  ELSE IF key = "inconsistencyLevel" THEN input.inconsistencyLevel # Absent
  ELSE IF key \in BoolFields THEN input.b[key] # Absent
  ELSE FALSE

\* Faulty variant: the bucket is LOW only from three missing critical inputs on.
buildConfidenceTraceLowAboveTwo(input, rules) ==
  LET criticalInputsStatus ==
        [key \in rules.criticalInputs |-> isCriticalInputPresent(key, input)]
      missingCriticalInputs ==
        Cardinality({key \in rules.criticalInputs : ~criticalInputsStatus[key]})
      inconsistencyLevel == Coalesce(input.inconsistencyLevel, "NONE")
      userUncertainOnSafetyQuestions == Truthy(input.b.userUncertainOnSafetyQuestions)
  IN [bucket |->
        IF missingCriticalInputs > 2 \/ inconsistencyLevel = "MAJOR"
           \/ userUncertainOnSafetyQuestions
        THEN "LOW"
        ELSE IF missingCriticalInputs >= 1 \/ inconsistencyLevel = "MINOR" THEN "MEDIUM"
        ELSE "HIGH",
      missingCriticalInputs |-> missingCriticalInputs,
      criticalInputsStatus |-> criticalInputsStatus,
      inconsistencyLevel |-> inconsistencyLevel,
      userUncertainOnSafetyQuestions |-> userUncertainOnSafetyQuestions]

\* Faulty variant: the MEDIUM conditions are looked at before the LOW conditions.
buildConfidenceTraceMediumFirst(input, rules) ==
  LET criticalInputsStatus ==
        [key \in rules.criticalInputs |-> isCriticalInputPresent(key, input)]
      missingCriticalInputs ==
        Cardinality({key \in rules.criticalInputs : ~criticalInputsStatus[key]})
      inconsistencyLevel == Coalesce(input.inconsistencyLevel, "NONE")
      userUncertainOnSafetyQuestions == Truthy(input.b.userUncertainOnSafetyQuestions)
  IN [bucket |->
        IF missingCriticalInputs = 1 \/ inconsistencyLevel = "MINOR" THEN "MEDIUM"
        ELSE IF missingCriticalInputs >= 2 \/ inconsistencyLevel = "MAJOR"
                \/ userUncertainOnSafetyQuestions
        THEN "LOW"
        ELSE "HIGH",
      missingCriticalInputs |-> missingCriticalInputs,
      criticalInputsStatus |-> criticalInputsStatus,
      inconsistencyLevel |-> inconsistencyLevel,
      userUncertainOnSafetyQuestions |-> userUncertainOnSafetyQuestions]

buildConfidenceTrace(input, rules) ==
  LET criticalInputsStatus ==
        [key \in rules.criticalInputs |-> isCriticalInputPresent(key, input)]
      missingCriticalInputs ==
        Cardinality({key \in rules.criticalInputs : ~criticalInputsStatus[key]})
      inconsistencyLevel == Coalesce(input.inconsistencyLevel, "NONE")
      userUncertainOnSafetyQuestions == Truthy(input.b.userUncertainOnSafetyQuestions)
  IN [bucket |->
        IF missingCriticalInputs >= 2 \/ inconsistencyLevel = "MAJOR"
           \/ userUncertainOnSafetyQuestions
        THEN "LOW"
        ELSE IF missingCriticalInputs = 1 \/ inconsistencyLevel = "MINOR" THEN "MEDIUM"
        ELSE "HIGH",
      missingCriticalInputs |-> missingCriticalInputs,
      criticalInputsStatus |-> criticalInputsStatus,
      inconsistencyLevel |-> inconsistencyLevel,
      userUncertainOnSafetyQuestions |-> userUncertainOnSafetyQuestions]

\* Faulty variant: two missing critical inputs already count as "more than two".
evaluateUncertaintyFromTwo(input, confidence) ==
  LET reasons ==
        (IF Truthy(input.b.cannotAnswerCriticalQuestions)
         THEN <<"cannotAnswerCriticalQuestions">> ELSE <<>>)
        \o (IF confidence.missingCriticalInputs >= 2
            THEN <<"missingMoreThanTwoCriticalInputs">> ELSE <<>>)
        \o (IF confidence.inconsistencyLevel = "MAJOR"
            THEN <<"majorInconsistency">> ELSE <<>>)
        \o (IF Truthy(input.b.userUncertainOnSafetyQuestions)
            THEN <<"userUncertainOnSafetyQuestions">> ELSE <<>>)
        \o (IF confidence.bucket = "LOW" THEN <<"lowConfidence">> ELSE <<>>)
  IN [triggered |-> Len(reasons) > 0, reasons |-> reasons]

evaluateUncertainty(input, confidence) ==
  LET reasons ==
        (IF Truthy(input.b.cannotAnswerCriticalQuestions)
         THEN <<"cannotAnswerCriticalQuestions">> ELSE <<>>)
        \o (IF confidence.missingCriticalInputs > 2
            THEN <<"missingMoreThanTwoCriticalInputs">> ELSE <<>>)
        \o (IF confidence.inconsistencyLevel = "MAJOR"
            THEN <<"majorInconsistency">> ELSE <<>>)
        \o (IF Truthy(input.b.userUncertainOnSafetyQuestions)
            THEN <<"userUncertainOnSafetyQuestions">> ELSE <<>>)
        \o (IF confidence.bucket = "LOW" THEN <<"lowConfidence">> ELSE <<>>)
  IN [triggered |-> Len(reasons) > 0, reasons |-> reasons]

\* Faulty variant: URGENT is not escalated.
escalateRoutineOnly(level) == IF level = ROUTINE THEN URGENT ELSE level

\* Faulty variant: ROUTINE jumps to EMERGENCY.
escalateTwoLevels(level) == EMERGENCY

escalateOneLevel(level) ==
  IF level = ROUTINE THEN URGENT
  ELSE IF level = URGENT THEN EMERGENCY
  ELSE EMERGENCY

\* Faulty variant: a lead of exactly 2 points is not enough.
inferUrgentDomainAboveTwo(score) ==
  IF score.mentalHealth > score.pelvicFloorAndRecovery + 2 THEN "mental"
  ELSE IF score.pelvicFloorAndRecovery > score.mentalHealth + 2 THEN "pelvic"
  ELSE "mixed"

inferUrgentDomain(score) ==
  IF score.mentalHealth >= score.pelvicFloorAndRecovery + 2 THEN "mental"
  ELSE IF score.pelvicFloorAndRecovery >= score.mentalHealth + 2 THEN "pelvic"
  ELSE "mixed"

buildActionPlan(level, domain) ==
  IF level = EMERGENCY
  THEN [level |-> level, primaryRoute |-> "CALL_EMERGENCY_112", timeframe |-> "NOW"]
  ELSE IF level = URGENT
  THEN IF domain = "mental"
       THEN [level |-> level, primaryRoute |-> "SAME_DAY_MENTAL_HEALTH_ASSESSMENT",
             timeframe |-> "TODAY"]
       ELSE IF domain = "pelvic"
       THEN [level |-> level, primaryRoute |-> "SAME_DAY_OBGYN_OR_HAUSARZT",
             timeframe |-> "TODAY"]
       ELSE [level |-> level, primaryRoute |-> "SAME_DAY_MIXED_MENTAL_AND_OBGYN",
             timeframe |-> "TODAY"]
  ELSE [level |-> level, primaryRoute |-> "ROUTINE_POSTPARTUM_FOLLOWUP",
        timeframe |-> "WITHIN_7_DAYS"]

AnyFired(redFlags) == \E i \in DOMAIN redFlags : redFlags[i].fired

\* Faulty variant: the threshold is exclusive.
evaluatePostpartumTriageStrict(input, rules) ==
  LET redFlags == evaluateRedFlags(input, rules)
      confidence == buildConfidenceTrace(input, rules)
      scoreBreakdown == calculateScore(input, rules)
      baseLevel == IF scoreBreakdown.total > rules.urgentSameDayMin THEN URGENT ELSE ROUTINE
      uncertainty == evaluateUncertainty(input, confidence)
      finalLevel == IF uncertainty.triggered THEN escalateOneLevel(baseLevel) ELSE baseLevel
  IN IF AnyFired(redFlags)
     THEN [level |-> EMERGENCY,
           isEmergency |-> TRUE,
           redFlags |-> redFlags,
           scoreBreakdown |-> [mentalHealth |-> 0, pelvicFloorAndRecovery |-> 0,
                               historyAndContext |-> 0, total |-> 0],
           confidence |-> confidence,
           uncertainty |-> [triggered |-> FALSE, reasons |-> <<>>,
                            escalatedFrom |-> Absent, escalatedTo |-> Absent],
           actionPlan |-> buildActionPlan(EMERGENCY, "mixed")]
     ELSE [level |-> finalLevel,
           isEmergency |-> finalLevel = EMERGENCY,
           redFlags |-> redFlags,
           scoreBreakdown |-> scoreBreakdown,
           confidence |-> confidence,
           uncertainty |-> [triggered |-> uncertainty.triggered,
                            reasons |-> uncertainty.reasons,
                            escalatedFrom |-> IF uncertainty.triggered THEN baseLevel ELSE Absent,
                            escalatedTo |-> IF uncertainty.triggered THEN finalLevel ELSE Absent],
           actionPlan |-> buildActionPlan(finalLevel, inferUrgentDomain(scoreBreakdown))]

evaluatePostpartumTriage(input, rules) ==
  LET redFlags == evaluateRedFlags(input, rules)
      confidence == buildConfidenceTrace(input, rules)
      scoreBreakdown == calculateScore(input, rules)
      baseLevel == IF scoreBreakdown.total >= rules.urgentSameDayMin THEN URGENT ELSE ROUTINE
      uncertainty == evaluateUncertainty(input, confidence)
      finalLevel == IF uncertainty.triggered THEN escalateOneLevel(baseLevel) ELSE baseLevel
  IN IF AnyFired(redFlags)
     THEN [level |-> EMERGENCY,
           isEmergency |-> TRUE,
           redFlags |-> redFlags,
           scoreBreakdown |-> [mentalHealth |-> 0, pelvicFloorAndRecovery |-> 0,
                               historyAndContext |-> 0, total |-> 0],
           confidence |-> confidence,
           uncertainty |-> [triggered |-> FALSE, reasons |-> <<>>,
                            escalatedFrom |-> Absent, escalatedTo |-> Absent],
           actionPlan |-> buildActionPlan(EMERGENCY, "mixed")]
     ELSE [level |-> finalLevel,
           isEmergency |-> finalLevel = EMERGENCY,
           redFlags |-> redFlags,
           scoreBreakdown |-> scoreBreakdown,
           confidence |-> confidence,
           uncertainty |-> [triggered |-> uncertainty.triggered,
                            reasons |-> uncertainty.reasons,
                            escalatedFrom |-> IF uncertainty.triggered THEN baseLevel ELSE Absent,
                            escalatedTo |-> IF uncertainty.triggered THEN finalLevel ELSE Absent],
           actionPlan |-> buildActionPlan(finalLevel, inferUrgentDomain(scoreBreakdown))]

\* ------------------------------------------------------------------ rule sets
\* The rule file is data outside the program; these are the rule sets of the model.
SampleScoring ==
  [f \in MentalFields \cup PelvicFields \cup HistoryFields \cup {"lateOnsetAfter6Weeks"} |->
     IF f \in {"functionalImpairmentMental", "functionalImpairmentPelvic", "fecalIncontinenceAny"}
     THEN 3
     ELSE IF f \in HistoryFields \cup {"lateOnsetAfter6Weeks"} THEN 1 ELSE 2]

SampleRules ==
  [version |-> "postpartum-de-v1",
   redFlagRules |-> RedFlagIds,
   scoring |-> SampleScoring,
   urgentSameDayMin |-> 4,
   criticalInputs |-> {"weeksPostpartum", "suicidalIdeationNow", "functionalImpairmentOverall"}]

\* ------------------------------------------------------------ recent lists
\* A JavaScript number: NaN, an infinity, or whole + 1/2 when half is set.
Finite(whole, half) == [kind |-> "finite", whole |-> whole, half |-> half]
NonFinite(kind) == [kind |-> kind, whole |-> 0, half |-> FALSE]

\* Number.parseInt(raw, 10) of the limit parameters of the model.
parseInt(raw) ==
  CASE raw = "1" -> Finite(1, FALSE)
    [] raw = "2" -> Finite(2, FALSE)
    [] raw = "200" -> Finite(200, FALSE)
    [] raw = "201" -> Finite(201, FALSE)
    [] raw = "0" -> Finite(0, FALSE)
    [] raw = "-3" -> Finite(-3, FALSE)
    [] raw = "0.5" -> Finite(0, FALSE)
    [] raw = "2.5" -> Finite(2, FALSE)
    [] raw = "2abc" -> Finite(2, FALSE)
    [] OTHER -> NonFinite("NaN")

MinOf(a, b) == IF a < b THEN a ELSE b

\* parsePositiveInt(raw, fallback, max): raw is Absent without the parameter.
parsePositiveInt(raw, fallback, max) ==
  IF raw = Absent \/ raw = "" THEN fallback
  ELSE LET parsed == parseInt(raw)
       IN IF parsed.kind # "finite" \/ parsed.whole <= 0 THEN fallback
          ELSE MinOf(parsed.whole, max)

\* normalizeLimit: limit <= 0 is whole < 0, or whole = 0 without the half;
\* Math.floor is the whole part.
normalizeLimit(limit) ==
  IF limit.kind # "finite" \/ limit.whole < 0 \/ (limit.whole = 0 /\ ~limit.half)
  THEN 50
  ELSE MinOf(limit.whole, 200)

\* The clock counts half seconds; datetime() of SQLite drops the fraction of a
\* second.
TicksPerSecond == 2

datetime(t) == t \div TicksPerSecond

\* Faulty variant: ORDER BY rowid, the oldest row first.
SelectRecentOldestFirst(rows, times, boundedLimit) ==
  SubSeq(rows, 1, MinOf(boundedLimit, Len(rows)))

\* SELECT ... ORDER BY datetime(...) DESC, rowid DESC LIMIT boundedLimit, of rows
\* in rowid order with their times.
SelectRecent(rows, times, boundedLimit) ==
  LET Before(j, i) == \/ datetime(times[j]) > datetime(times[i])
                      \/ datetime(times[j]) = datetime(times[i]) /\ j > i
      order == [k \in 1..Len(rows) |->
                  CHOOSE i \in 1..Len(rows) :
                    Cardinality({j \in 1..Len(rows) : Before(j, i)}) = k - 1]
  IN [k \in 1..MinOf(boundedLimit, Len(rows)) |-> rows[order[k]]]

readRecentChangeEvents(rows, limit) ==
  SelectRecent(rows, [k \in 1..Len(rows) |-> rows[k].timestamp], normalizeLimit(limit))

\* ------------------------------------------------------------ login throttle
\* AUTH_MAX_FAILED_ATTEMPTS and AUTH_COOLDOWN_SECONDS of the environment, the
\* cool-down in ticks of the clock.
AUTH_MAX_FAILED_ATTEMPTS == 2
AUTH_COOLDOWN == 2

NoAttempts == [present |-> FALSE, failed_count |-> 0, blocked_until |-> 0]

NoLockout == [streak |-> 0, since |-> NoTime, refused |-> FALSE]

\* Faulty variant: a block is never reported.
getLoginThrottleOpen(row, nowMs) ==
  [blocked |-> FALSE, blockedUntil |-> 0,
   failedCount |-> IF row.present THEN row.failed_count ELSE 0]

getLoginThrottle(row, nowMs) ==
  IF ~row.present THEN [blocked |-> FALSE, blockedUntil |-> 0, failedCount |-> 0]
  ELSE IF row.blocked_until > nowMs
  THEN [blocked |-> TRUE, blockedUntil |-> row.blocked_until, failedCount |-> row.failed_count]
  ELSE [blocked |-> FALSE, blockedUntil |-> 0, failedCount |-> row.failed_count]

\* The row after the upsert, and the state returned.
recordFailedLoginAttempt(current, nowMs, maxFailedAttempts, cooldownMs) ==
  LET counted == (IF current.present THEN current.failed_count ELSE 0) + 1
      until == IF current.present THEN current.blocked_until ELSE 0
      trips == until <= nowMs /\ counted >= maxFailedAttempts
      failedCount == IF trips THEN 0 ELSE counted
      blockedUntil == IF trips THEN nowMs + cooldownMs ELSE until
  IN [row |-> [present |-> TRUE, failed_count |-> failedCount,
               blocked_until |-> blockedUntil],
      blocked |-> blockedUntil > nowMs,
      blockedUntil |-> blockedUntil,
      failedCount |-> failedCount]

\* DELETE FROM postpartum_auth_attempts WHERE attempt_key = ?
clearLoginThrottle(row) == NoAttempts

\* ---------------------------------------------------------------- sessions
\* SESSION_TTL_SECONDS, in ticks of the clock.
SessionTtl == 1

\* randomBytes gives every session an id of its own: the n-th id issued.
SessionIdOf(n) == <<"s1", "s2", "s3", "s4">>[n]

NoSession == [username |-> Absent, role |-> Absent, expiresAt |-> NoTime]

NoSessions == [rows |-> <<>>, issued |-> 0]

createSession(s, username, role, now) ==
  LET sessionId == SessionIdOf(s.issued + 1)
  IN [rows |-> [id \in DOMAIN s.rows \cup {sessionId} |->
                  IF id = sessionId
                  THEN [username |-> username, role |-> role,
                        expiresAt |-> now + SessionTtl]
                  ELSE s.rows[id]],
      issued |-> s.issued + 1]

deleteSession(s, sessionId) ==
  [s EXCEPT !.rows = [id \in DOMAIN s.rows \ {sessionId} |-> s.rows[id]]]

\* readSession: the session of the row, none when there is no row or the row has
\* expired; an expired row is deleted.
readSession(s, sessionId, now) ==
  IF sessionId \notin DOMAIN s.rows THEN [session |-> NoSession, sessions |-> s]
  ELSE IF s.rows[sessionId].expiresAt <= now
  THEN [session |-> NoSession, sessions |-> deleteSession(s, sessionId)]
  ELSE [session |-> s.rows[sessionId], sessions |-> s]

\* cookie is the value of the pp_session cookie of the request, "" without one.
getSessionFromRequest(s, cookie, now) ==
  IF cookie = "" THEN [session |-> NoSession, sessions |-> s]
  ELSE readSession(s, cookie, now)

\* requireRole: status is 0 when the request may go on, else what was answered.
requireRole(s, cookie, now, allowedRoles) ==
  LET found == getSessionFromRequest(s, cookie, now)
  IN [status |-> IF found.session = NoSession THEN 401
                 ELSE IF found.session.role \notin allowedRoles THEN 403
                 ELSE 0,
      session |-> found.session,
      sessions |-> found.sessions]

\* ------------------------------------------------------------- the case store
VARIABLES
  cases,      \* postpartum_cases: event_id -> the event stored in event_json
  changes,    \* postpartum_changes in rowid order: the parsed change_json rows
  clock,      \* what new Date() returns
  tx,         \* per connection, its write transaction in progress, if any
  resp,       \* the last response a caller received; threw is the statement whose
              \* exception a 500 reports
  okPatches,  \* per case, the number of patch calls that returned success
  evalInput,  \* the questionnaire handed to the decision engine
  evalRules,  \* the rule set the process loaded
  evalResult, \* what evaluatePostpartumTriage returned for evalInput, once it has run
  sessions,   \* postpartum_sessions: rows by session_id, and the number of ids issued
  attempts,   \* postpartum_auth_attempts: the row of the one attempt key of the model
  lockout     \* what the login attempts so far amount to, counted apart from the table

vars ==
  <<cases, changes, clock, tx, resp, okPatches, evalInput, evalRules, evalResult, sessions,
    attempts, lockout>>

engine == <<evalInput, evalRules, evalResult>>

throttle == <<attempts, lockout>>

\* No decision yet.
NoResult ==
  [level |-> Absent, isEmergency |-> FALSE, redFlags |-> <<>>,
   scoreBreakdown |-> [mentalHealth |-> 0, pelvicFloorAndRecovery |-> 0,
                       historyAndContext |-> 0, total |-> 0],
   confidence |-> [bucket |-> Absent, missingCriticalInputs |-> 0,
                   criticalInputsStatus |-> <<>>, inconsistencyLevel |-> Absent,
                   userUncertainOnSafetyQuestions |-> FALSE],
   uncertainty |-> [triggered |-> FALSE, reasons |-> <<>>,
                    escalatedFrom |-> Absent, escalatedTo |-> Absent],
   actionPlan |-> [level |-> Absent, primaryRoute |-> Absent, timeframe |-> Absent]]

NoChange ==
  [changeId |-> NoId, eventId |-> NoId, timestamp |-> NoTime, editor |-> Absent,
   changeType |-> Absent, patch |-> EmptyPatch, before |-> NoEvent, after |-> NoEvent]

IdleTx ==
  [owner |-> "none", pc |-> "idle", eventId |-> NoId, changeType |-> Absent,
   editor |-> Absent, body |-> Absent, patch |-> EmptyPatch, before |-> NoEvent,
   after |-> NoEvent, change |-> NoChange, wroteCase |-> FALSE, wroteChange |-> FALSE]

\* The legacy files a start found, when there were none.
NoFiles == [history |-> <<>>, changes |-> <<>>]

\* files are the legacy files the start read; again says that the start before it,
\* with nothing in between, read the same files, and earlier is the number of rows
\* that start imported.
NoResp ==
  [op |-> "none", changeType |-> Absent, eventId |-> NoId,
   body |-> Absent, status |-> 0, threw |-> Absent,
   importedEvents |-> 0, importedChanges |-> 0,
   files |-> NoFiles, again |-> FALSE, earlier |-> 0,
   cookie |-> "", query |-> Absent, limit |-> 0, list |-> <<>>]

\* Sample questionnaires of POST /api/postpartum/evaluate.
SampleInput(name) ==
  IF name = "emergency"
  THEN [BlankInput EXCEPT !.b.thoughtsOfHarmingBaby = "true", !.weeksPostpartum = 10]
  ELSE [BlankInput EXCEPT !.b.depressedMoodMostDays = "true",
                          !.b.suicidalIdeationNow = "false",
                          !.b.functionalImpairmentMental = "true",
                          !.weeksPostpartum = 10]

SampleInputs == {"emergency", "urgent"}

\* result.redFlags.filter((flag) => flag.fired).map((flag) => flag.id)
RECURSIVE FiredIds(_)
FiredIds(redFlags) ==
  IF redFlags = <<>> THEN <<>>
  ELSE (IF Head(redFlags).fired THEN <<Head(redFlags).id>> ELSE <<>>)
       \o FiredIds(Tail(redFlags))

\* createPostpartumAuditEvent: the case built from a decision.
createPostpartumAuditEvent(eventId, result, now) ==
  [NoEvent EXCEPT
     !.eventId = eventId,
     !.timestamp = now,
     !.finalLevel = result.level,
     !.baseLevel = Coalesce(result.uncertainty.escalatedFrom, result.level),
     !.isEmergency = result.isEmergency,
     !.escalatedByUncertainty =
        result.uncertainty.triggered /\ result.uncertainty.escalatedFrom # Absent,
     !.primaryRoute = result.actionPlan.primaryRoute,
     !.timeframe = result.actionPlan.timeframe,
     !.scoreBreakdown = result.scoreBreakdown,
     !.confidenceBucket = result.confidence.bucket,
     !.missingCriticalInputs = result.confidence.missingCriticalInputs,
     !.firedRedFlagIds = FiredIds(result.redFlags),
     !.uncertaintyReasons = result.uncertainty.reasons,
     !.workflow = [NoWorkflow EXCEPT !.present = TRUE, !.status = "NEW", !.updated_at = now]]

\* Faulty variant: the patch replaces the sub-record, a key it lacks is lost.
SpreadReplace(old, new) == new

\* Faulty variant: a key the patch holds as undefined does not overwrite.
SpreadDefined(old, new) == IF new # Absent /\ new # Undef THEN new ELSE old

\* One key of { ...before, ...patch }: the patch wins when it has the key.
Spread(old, new) == IF new # Absent THEN new ELSE old

\* Faulty variant: an outcome that is resolved closes the workflow.
applyOutcomeCloses(before, patch, editor, now) ==
  normalizeEvent(
    [before EXCEPT
       !.outcome = [@ EXCEPT
          !.present = TRUE,
          !.care_sought = Spread(@, patch.care_sought),
          !.care_time = Spread(@, patch.care_time),
          !.care_type = Spread(@, patch.care_type),
          !.resolved = Spread(@, patch.resolved),
          !.notes = Spread(@, patch.notes),
          !.updated_at = now,
          !.updated_by = editor],
       !.workflow = [@ EXCEPT
          !.status = IF patch.resolved = "true" THEN "CLOSED" ELSE @],
       !.last_updated_by = editor,
       !.last_updated_at = now])

\* updateOutcome's callback: { ...before.outcome, ...outcomePatch, updated_at, updated_by }.
applyOutcome(before, patch, editor, now) ==
  normalizeEvent(
    [before EXCEPT
       !.outcome = [@ EXCEPT
          !.present = TRUE,
          !.care_sought = Spread(@, patch.care_sought),
          !.care_time = Spread(@, patch.care_time),
          !.care_type = Spread(@, patch.care_type),
          !.resolved = Spread(@, patch.resolved),
          !.notes = Spread(@, patch.notes),
          !.updated_at = now,
          !.updated_by = editor],
       !.last_updated_by = editor,
       !.last_updated_at = now])

\* Faulty variant: the parent record is not stamped.
applyWorkflowNoParentStamp(before, patch, editor, now) ==
  normalizeEvent(
    [before EXCEPT
       !.workflow = [@ EXCEPT
          !.present = TRUE,
          !.status = Spread(@, patch.status),
          !.owner = Spread(@, patch.owner),
          !.follow_up_due_at = Spread(@, patch.follow_up_due_at),
          !.last_contact_at = Spread(@, patch.last_contact_at),
          !.updated_at = now,
          !.updated_by = editor]])

\* Faulty variant: a closed case keeps its status.
applyWorkflowNoReopen(before, patch, editor, now) ==
  normalizeEvent(
    [before EXCEPT
       !.workflow = [@ EXCEPT
          !.present = TRUE,
          !.status = IF before.workflow.status = "CLOSED" THEN "CLOSED"
                     ELSE Spread(@, patch.status),
          !.owner = Spread(@, patch.owner),
          !.follow_up_due_at = Spread(@, patch.follow_up_due_at),
          !.last_contact_at = Spread(@, patch.last_contact_at),
          !.updated_at = now,
          !.updated_by = editor],
       !.last_updated_by = editor,
       !.last_updated_at = now])

\* updateWorkflow's callback: { ...before.workflow, ...workflowPatch, updated_at, updated_by }.
applyWorkflow(before, patch, editor, now) ==
  normalizeEvent(
    [before EXCEPT
       !.workflow = [@ EXCEPT
          !.present = TRUE,
          !.status = Spread(@, patch.status),
          !.owner = Spread(@, patch.owner),
          !.follow_up_due_at = Spread(@, patch.follow_up_due_at),
          !.last_contact_at = Spread(@, patch.last_contact_at),
          !.updated_at = now,
          !.updated_by = editor],
       !.last_updated_by = editor,
       !.last_updated_at = now])

apply(changeType, before, patch, editor, now) ==
  IF changeType = "OUTCOME_UPDATE" THEN applyOutcome(before, patch, editor, now)
  ELSE applyWorkflow(before, patch, editor, now)

\* randomUUID for a change row: an id no row of the table has.
NewChangeId(rows) == "change-" \o ToString(Len(rows) + 1)

\* createAuditChangeEvent(changeType, editor, patch, update)
createAuditChangeEvent(changeId, changeType, editor, patch, before, after, now) ==
  [changeId |-> changeId, eventId |-> after.eventId, timestamp |-> now,
   editor |-> editor, changeType |-> changeType, patch |-> patch,
   before |-> before, after |-> after]

\* JSON.parse(JSON.stringify(change)): the row as it is read back.
StringifyChange(c) ==
  [c EXCEPT !.patch = StringifyPatch(@), !.before = StringifyEvent(@),
            !.after = StringifyEvent(@)]

\* ------------------------------------------------------------- legacy import
\* A case as the version without a workflow wrote it: an outcome, no editor.
LegacyEventOld ==
  [NoEvent EXCEPT
     !.eventId = LegacyId, !.timestamp = 0, !.finalLevel = URGENT,
     !.outcome = [NoOutcome EXCEPT !.present = TRUE, !.resolved = "true", !.updated_at = 0]]

\* A case as the version without a workflow wrote it and nobody touched it since.
LegacyEventPlain ==
  [NoEvent EXCEPT !.eventId = LegacyId, !.timestamp = 0, !.finalLevel = URGENT]

\* A case before and after an outcome edit in the JSONL version: the workflow is
\* the one of createPostpartumAuditEvent, the outcome the one of
\* updateAuditEventOutcome; neither names an editor.
LegacyEventBefore ==
  [NoEvent EXCEPT
     !.eventId = LegacyId, !.timestamp = 0, !.finalLevel = URGENT,
     !.workflow = [NoWorkflow EXCEPT !.present = TRUE, !.status = "NEW", !.updated_at = 0]]

LegacyEvent ==
  [LegacyEventBefore EXCEPT
     !.outcome = [NoOutcome EXCEPT !.present = TRUE, !.notes = "called back",
                                   !.updated_at = 0]]

\* The line the JSONL version appended to the change log for that edit.
LegacyChange ==
  [NoChange EXCEPT
     !.changeId = LegacyChangeId, !.eventId = LegacyId, !.timestamp = 0,
     !.editor = "ops-z", !.changeType = "OUTCOME_UPDATE",
     !.patch = [EmptyPatch EXCEPT !.notes = "called back"],
     !.before = LegacyEventBefore, !.after = LegacyEvent]

\* What a starting process can find in logs/: the parsed lines of
\* postpartum-history.jsonl and of postpartum-change-history.jsonl, <<>> for a
\* file that is missing or empty.
LegacyFiles ==
  {NoFiles,
   [history |-> <<LegacyEventOld>>, changes |-> <<>>],
   [history |-> <<LegacyEventPlain>>, changes |-> <<>>],
   [history |-> <<LegacyEvent>>, changes |-> <<LegacyChange>>],
   [history |-> <<>>, changes |-> <<LegacyChange>>],
   [history |-> <<LegacyEvent, LegacyEvent>>, changes |-> <<LegacyChange, LegacyChange>>]}

\* INSERT OR IGNORE INTO postpartum_cases, one statement per line of the file;
\* imported counts the statements whose result.changes is positive.
RECURSIVE InsertCasesOrIgnore(_, _, _)
InsertCasesOrIgnore(table, events, imported) ==
  IF events = <<>> THEN [table |-> table, imported |-> imported]
  ELSE LET event == normalizeEvent(Head(events))
       IN IF event.eventId \in DOMAIN table
          THEN InsertCasesOrIgnore(table, Tail(events), imported)
          ELSE InsertCasesOrIgnore(
                 [id \in DOMAIN table \cup {event.eventId} |->
                    IF id = event.eventId THEN StringifyEvent(event) ELSE table[id]],
                 Tail(events), imported + 1)

\* Faulty variant: a plain INSERT into a table without a key on change_id.
RECURSIVE InsertChangesAlways(_, _, _)
InsertChangesAlways(rows, lines, imported) ==
  IF lines = <<>> THEN [rows |-> rows, imported |-> imported]
  ELSE InsertChangesAlways(Append(rows, StringifyChange(Head(lines))),
                           Tail(lines), imported + 1)

\* INSERT OR IGNORE INTO postpartum_changes, one statement per line of the file.
RECURSIVE InsertChangesOrIgnore(_, _, _)
InsertChangesOrIgnore(rows, lines, imported) ==
  IF lines = <<>> THEN [rows |-> rows, imported |-> imported]
  ELSE LET change == Head(lines)
       IN IF \E i \in DOMAIN rows : rows[i].changeId = change.changeId
          THEN InsertChangesOrIgnore(rows, Tail(lines), imported)
          ELSE InsertChangesOrIgnore(Append(rows, StringifyChange(change)),
                                     Tail(lines), imported + 1)

\* readRecentAuditEvents: every stored case as a reader gets it.
readRecentAuditEvents(table) == [id \in DOMAIN table |-> normalizeEvent(table[id])]

\* The event ids of the case table in rowid order: the import writes into an
\* empty table only, and the i-th case created gets EventIdOf(i).
CaseRows(table) ==
  LET created == {i \in 1..Cardinality(DOMAIN table) : EventIdOf(i) \in DOMAIN table}
      legacy == IF LegacyId \in DOMAIN table THEN <<LegacyId>> ELSE <<>>
  IN legacy \o [k \in 1..Cardinality(created) |-> EventIdOf(k)]

\* readRecentAuditEvents(limit): the rows by created_at, the newest first.
getRecent(table, limit) ==
  LET ids == CaseRows(table)
  IN SelectRecent([k \in 1..Len(ids) |-> readRecentAuditEvents(table)[ids[k]]],
                  [k \in 1..Len(ids) |-> table[ids[k]].timestamp],
                  normalizeLimit(limit))

\* tableCount
tableCount(table) == IF DOMAIN table = {} THEN 0 ELSE Cardinality(DOMAIN table)

\* Faulty variant: no look at the tables, and every line is written again.
migrateFromJsonlAlways(caseTable, changeRows, historyFile, changeFile) ==
  LET eventsDone == InsertCasesOrIgnore(<<>>, historyFile, 0)
      changesDone == InsertChangesAlways(changeRows, changeFile, 0)
  IN [cases |-> [id \in DOMAIN caseTable \cup DOMAIN eventsDone.table |->
                   IF id \in DOMAIN eventsDone.table THEN eventsDone.table[id]
                   ELSE caseTable[id]],
      changes |-> changesDone.rows,
      importedEvents |-> eventsDone.imported,
      importedChanges |-> changesDone.imported]

\* migrateFromJsonl: the tables it leaves and the counts it returns.
migrateFromJsonl(caseTable, changeRows, historyFile, changeFile) ==
  LET hasCases == tableCount(caseTable) > 0
      eventsDone == IF ~hasCases THEN InsertCasesOrIgnore(caseTable, historyFile, 0)
                    ELSE [table |-> caseTable, imported |-> 0]
      hasChanges == tableCount(changeRows) > 0
      changesDone == IF ~hasChanges THEN InsertChangesOrIgnore(changeRows, changeFile, 0)
                     ELSE [rows |-> changeRows, imported |-> 0]
  IN [cases |-> eventsDone.table,
      changes |-> changesDone.rows,
      importedEvents |-> eventsDone.imported,
      importedChanges |-> changesDone.imported]

\* ------------------------------------------------------------------- actions
Init ==
  /\ cases = <<>>
  /\ changes = <<>>
  /\ clock = 0
  /\ tx = [p \in Conns |-> IdleTx]
  /\ resp = NoResp
  /\ okPatches = [id \in AllIds |-> 0]
  /\ evalInput = BlankInput
  /\ evalRules = SampleRules
  /\ evalResult = NoResult
  /\ sessions = NoSessions
  /\ attempts = NoAttempts
  /\ lockout = NoLockout

Respond(p, op, changeType, eventId, body, status) ==
  [NoResp EXCEPT !.op = op, !.changeType = changeType,
                 !.eventId = eventId, !.body = body, !.status = status]

\* Time passes, up to max.
TickUpTo(max) ==
  /\ clock < max
  /\ clock' = clock + 1
  /\ UNCHANGED <<cases, changes, tx, resp, okPatches>>
  /\ UNCHANGED <<engine, sessions, throttle>>

Tick == TickUpTo(MaxClock)

\* Faulty variant: BEGIN without IMMEDIATE, the lock is never waited for.
LockAlwaysFree(p) == p \in Conns

\* BEGIN IMMEDIATE and every write statement outside a transaction succeed only
\* when no other connection holds the write lock of the database file.
LockFree(p) == \A q \in Conns \ {p} : tx[q].pc = "idle"

\* The process p starts: the constructor opens the database (a transaction the
\* previous run of p left open is gone) and migrateFromJsonl runs.
Startup(p, historyFile, changeFile) ==
  /\ LockFree(p)
  /\ LET m == migrateFromJsonl(cases, changes, historyFile, changeFile)
     IN /\ cases' = m.cases
        /\ changes' = m.changes
        /\ resp' = [Respond(p, "migrate", Absent, NoId, Absent, 0) EXCEPT
                      !.importedEvents = m.importedEvents,
                      !.importedChanges = m.importedChanges,
                      !.files = [history |-> historyFile, changes |-> changeFile],
                      !.again = resp.op = "migrate"
                                /\ resp.files = [history |-> historyFile,
                                                 changes |-> changeFile],
                      !.earlier = IF resp.op = "migrate"
                                     /\ resp.files = [history |-> historyFile,
                                                      changes |-> changeFile]
                                  THEN resp.importedEvents + resp.importedChanges
                                  ELSE 0]
  /\ tx' = [tx EXCEPT ![p] = IdleTx]
  /\ UNCHANGED <<clock, okPatches>>
  /\ UNCHANGED <<engine, sessions, throttle>>

\* The first n lines of the two files, the history file first.
FirstLines(historyFile, changeFile, n) ==
  [history |-> SubSeq(historyFile, 1, IF n < Len(historyFile) THEN n ELSE Len(historyFile)),
   changes |-> SubSeq(changeFile, 1, IF n > Len(historyFile) THEN n - Len(historyFile) ELSE 0)]

\* The process p starts and dies inside migrateFromJsonl, after n of its INSERT
\* statements: the loops run outside a transaction, what they wrote stays.
StartupDies(p, historyFile, changeFile, n) ==
  /\ LockFree(p)
  /\ n < Len(historyFile) + Len(changeFile)
  /\ LET part == FirstLines(historyFile, changeFile, n)
         m == migrateFromJsonl(cases, changes, part.history, part.changes)
     IN /\ cases' = m.cases
        /\ changes' = m.changes
  /\ resp' = NoResp
  /\ tx' = [tx EXCEPT ![p] = IdleTx]
  /\ UNCHANGED <<clock, okPatches>>
  /\ UNCHANGED <<engine, sessions, throttle>>

\* Faulty variant: a decision that equals a stored one is not stored again.
CreateCaseDedup(p, sample) ==
  /\ LockFree(p) /\ tx[p].pc = "idle"
  /\ \E i \in 1..MaxCases :
       /\ EventIdOf(i) \notin DOMAIN cases
       /\ \A j \in 1..(i - 1) : EventIdOf(j) \in DOMAIN cases
       /\ LET result == evaluatePostpartumTriage(SampleInput(sample), SampleRules)
              event == createPostpartumAuditEvent(EventIdOf(i), result, clock)
              same == {id \in DOMAIN cases :
                         [cases[id] EXCEPT !.eventId = NoId, !.timestamp = NoTime,
                                           !.workflow.updated_at = NoTime]
                         = [StringifyEvent(event) EXCEPT !.eventId = NoId,
                              !.timestamp = NoTime, !.workflow.updated_at = NoTime]}
          IN IF same # {}
             THEN /\ cases' = cases
                  /\ resp' = Respond(p, "evaluate", Absent, CHOOSE id \in same : TRUE,
                                     sample, 200)
             ELSE /\ cases' = [id \in DOMAIN cases \cup {event.eventId} |->
                                 IF id = event.eventId THEN StringifyEvent(event)
                                 ELSE cases[id]]
                  /\ resp' = Respond(p, "evaluate", Absent, event.eventId, sample, 200)
  /\ UNCHANGED <<changes, clock, tx, okPatches>>
  /\ UNCHANGED <<engine, sessions, throttle>>

\* handleEvaluate: evaluate, build the case, insertAuditEvent.
CreateCase(p, sample) ==
  /\ LockFree(p) /\ tx[p].pc = "idle"
  /\ \E i \in 1..MaxCases :
       /\ EventIdOf(i) \notin DOMAIN cases
       /\ \A j \in 1..(i - 1) : EventIdOf(j) \in DOMAIN cases
       /\ LET result == evaluatePostpartumTriage(SampleInput(sample), SampleRules)
              event == createPostpartumAuditEvent(EventIdOf(i), result, clock)
          IN /\ cases' = [id \in DOMAIN cases \cup {event.eventId} |->
                            IF id = event.eventId THEN StringifyEvent(event) ELSE cases[id]]
             /\ resp' = Respond(p, "evaluate", Absent, event.eventId, sample, 200)
  /\ UNCHANGED <<changes, clock, tx, okPatches>>
  /\ UNCHANGED <<engine, sessions, throttle>>

\* handleEvaluate when the INSERT throws (the database is locked, the disk is full).
CreateCaseFails(p, sample) ==
  /\ resp' = Respond(p, "evaluate", Absent, NoId, sample, 500)
  /\ UNCHANGED <<cases, changes, clock, tx, okPatches>>
  /\ UNCHANGED <<engine, sessions, throttle>>

\* What handleOutcomeUpdate / handleWorkflowUpdate answer before they call the
\* store: 0 when the request passes.
Validate(changeType, authed, eventId, body) ==
  LET normalized == IF changeType = "OUTCOME_UPDATE"
                    THEN normalizeOutcomePatch(OutcomeBody(body))
                    ELSE normalizeWorkflowPatch(WorkflowBody(body))
  IN IF ~authed THEN 401
     ELSE IF eventId = "" THEN 400
     ELSE IF normalized.error THEN 400
     ELSE IF KeyCount(normalized.patch) = 0 THEN 400
     ELSE 0

PatchOf(changeType, body) ==
  IF changeType = "OUTCOME_UPDATE" THEN normalizeOutcomePatch(OutcomeBody(body)).patch
  ELSE normalizeWorkflowPatch(WorkflowBody(body)).patch

\* The handler answers 401 or 400: the store is not called.
PatchRejected(p, changeType, authed, eventId, body) ==
  /\ Validate(changeType, authed, eventId, body) # 0
  /\ resp' = Respond(p, "patch", changeType, eventId, body,
                     Validate(changeType, authed, eventId, body))
  /\ UNCHANGED <<cases, changes, clock, tx, okPatches>>
  /\ UNCHANGED <<engine, sessions, throttle>>

\* BEGIN IMMEDIATE throws: another connection holds the write lock.
PatchBusy(p, changeType, eventId, body) ==
  /\ Validate(changeType, TRUE, eventId, body) = 0
  /\ tx[p].pc = "idle"
  /\ ~LockFree(p)
  /\ resp' = [Respond(p, "patch", changeType, eventId, body, 500) EXCEPT !.threw = "begin"]
  /\ UNCHANGED <<cases, changes, clock, tx, okPatches>>
  /\ UNCHANGED <<engine, sessions, throttle>>

\* Faulty variant: a patch of a missing case inserts the row and answers 200.
PatchUpserts(p, changeType, eventId, body) ==
  /\ Validate(changeType, TRUE, eventId, body) = 0
  /\ tx[p].pc = "idle"
  /\ eventId \notin DOMAIN cases
  /\ cases' = [id \in DOMAIN cases \cup {eventId} |->
                 IF id = eventId THEN [NoEvent EXCEPT !.eventId = eventId] ELSE cases[id]]
  /\ resp' = Respond(p, "patch", changeType, eventId, body, 200)
  /\ UNCHANGED <<changes, clock, tx, okPatches>>
  /\ UNCHANGED <<engine, sessions, throttle>>

\* updateEventWithChange, no row: ROLLBACK, return null, the handler answers 404.
PatchNotFound(p, changeType, eventId, body) ==
  /\ Validate(changeType, TRUE, eventId, body) = 0
  /\ tx[p].pc = "idle"
  /\ LockFree(p)
  /\ eventId \notin DOMAIN cases
  /\ resp' = Respond(p, "patch", changeType, eventId, body, 404)
  /\ UNCHANGED <<cases, changes, clock, tx, okPatches>>
  /\ UNCHANGED <<engine, sessions, throttle>>

\* updateEventWithChange after BEGIN IMMEDIATE, SELECT, normalizeEvent and apply.
BeginTx(p, changeType, eventId, body, table, now) ==
  LET before == normalizeEvent(table[eventId])
      patch == PatchOf(changeType, body)
  IN [IdleTx EXCEPT !.owner = p, !.pc = "update", !.eventId = eventId,
                    !.changeType = changeType, !.editor = EditorOf(p),
                    !.body = body, !.patch = patch, !.before = before,
                    !.after = apply(changeType, before, patch, EditorOf(p), now)]

\* Faulty variant: the UPDATE matches no row.
UpdateTxNoWrite(t) == [t EXCEPT !.pc = "insert"]

\* ... after UPDATE postpartum_cases.
UpdateTx(t) == [t EXCEPT !.pc = "insert", !.wroteCase = TRUE]

\* Faulty variant: the INSERT of the change row is left out.
InsertTxSkipped(t, rows, now) == [t EXCEPT !.pc = "commit"]

\* ... after createAuditChangeEvent and INSERT INTO postpartum_changes.
InsertTx(t, rows, now) ==
  [t EXCEPT !.pc = "commit", !.wroteChange = TRUE,
            !.change = createAuditChangeEvent(NewChangeId(rows), t.changeType,
                         t.editor, t.patch, t.before, t.after, now)]

\* The tables as the transaction's connection sees them.
TxCases(t, table) ==
  IF t.wroteCase THEN [table EXCEPT ![t.eventId] = StringifyEvent(t.after)] ELSE table

\* Faulty variant: the change row replaces the last row of the table.
TxChangesOverwrite(t, rows) ==
  IF ~t.wroteChange THEN rows
  ELSE IF rows = <<>> THEN <<StringifyChange(t.change)>>
  ELSE [rows EXCEPT ![Len(rows)] = StringifyChange(t.change)]

TxChanges(t, rows) ==
  IF t.wroteChange THEN Append(rows, StringifyChange(t.change)) ELSE rows

\* COMMIT: the writes of the transaction become the tables.
Commit(t, table, rows) == [cases |-> TxCases(t, table), changes |-> TxChanges(t, rows)]

\* Faulty variant: the UPDATE ran outside the transaction and survives ROLLBACK.
RollbackKeepsCase(t, table, rows) == [cases |-> TxCases(t, table), changes |-> rows]

\* ROLLBACK: the writes of the transaction are dropped.
Rollback(t, table, rows) == [cases |-> table, changes |-> rows]

\* The transaction when the statement named by `at` throws.
TxAt(at, p, changeType, eventId, body, table, rows, now) ==
  IF at = "update" THEN BeginTx(p, changeType, eventId, body, table, now)
  ELSE IF at = "insert" THEN UpdateTx(BeginTx(p, changeType, eventId, body, table, now))
  ELSE InsertTx(UpdateTx(BeginTx(p, changeType, eventId, body, table, now)), rows, now)

FailurePoints == {"update", "insert", "commit"}

\* --- the patch of one process, where nothing runs between its statements
\* updateOutcome / updateWorkflow return { before, after }: the handler answers 200.
Patch(p, changeType, eventId, body) ==
  /\ Validate(changeType, TRUE, eventId, body) = 0
  /\ tx[p].pc = "idle"
  /\ LockFree(p)
  /\ eventId \in DOMAIN cases
  /\ LET t == TxAt("commit", p, changeType, eventId, body, cases, changes, clock)
     IN /\ cases' = Commit(t, cases, changes).cases
        /\ changes' = Commit(t, cases, changes).changes
  /\ okPatches' = [okPatches EXCEPT ![eventId] = @ + 1]
  /\ resp' = Respond(p, "patch", changeType, eventId, body, 200)
  /\ UNCHANGED <<clock, tx>>
  /\ UNCHANGED <<engine, sessions, throttle>>

\* A statement of the transaction throws: ROLLBACK, rethrow, the handler answers 500.
PatchThrows(p, changeType, eventId, body, at) ==
  /\ Validate(changeType, TRUE, eventId, body) = 0
  /\ tx[p].pc = "idle"
  /\ LockFree(p)
  /\ eventId \in DOMAIN cases
  /\ LET t == TxAt(at, p, changeType, eventId, body, cases, changes, clock)
     IN /\ cases' = Rollback(t, cases, changes).cases
        /\ changes' = Rollback(t, cases, changes).changes
  /\ resp' = [Respond(p, "patch", changeType, eventId, body, 500) EXCEPT !.threw = at]
  /\ UNCHANGED <<clock, tx, okPatches>>
  /\ UNCHANGED <<engine, sessions, throttle>>

\* --- the patch statement by statement, with other connections in between
PatchBegin(p, changeType, eventId, body) ==
  /\ Validate(changeType, TRUE, eventId, body) = 0
  /\ tx[p].pc = "idle"
  /\ LockFree(p)
  /\ eventId \in DOMAIN cases
  /\ tx' = [tx EXCEPT ![p] = BeginTx(p, changeType, eventId, body, cases, clock)]
  /\ UNCHANGED <<cases, changes, clock, resp, okPatches>>
  /\ UNCHANGED <<engine, sessions, throttle>>

TxUpdate(p) ==
  /\ tx[p].pc = "update"
  /\ tx' = [tx EXCEPT ![p] = UpdateTx(tx[p])]
  /\ UNCHANGED <<cases, changes, clock, resp, okPatches>>
  /\ UNCHANGED <<engine, sessions, throttle>>

TxInsert(p) ==
  /\ tx[p].pc = "insert"
  /\ tx' = [tx EXCEPT ![p] = InsertTx(tx[p], changes, clock)]
  /\ UNCHANGED <<cases, changes, clock, resp, okPatches>>
  /\ UNCHANGED <<engine, sessions, throttle>>

TxCommit(p) ==
  /\ tx[p].pc = "commit"
  /\ cases' = Commit(tx[p], cases, changes).cases
  /\ changes' = Commit(tx[p], cases, changes).changes
  /\ okPatches' = [okPatches EXCEPT ![tx[p].eventId] = @ + 1]
  /\ resp' = Respond(p, "patch", tx[p].changeType, tx[p].eventId, tx[p].body, 200)
  /\ tx' = [tx EXCEPT ![p] = IdleTx]
  /\ UNCHANGED clock
  /\ UNCHANGED <<engine, sessions, throttle>>

\* Faulty variant: the catch block rethrows without ROLLBACK.
TxFailsKeepsOpen(p) ==
  /\ tx[p].pc \in FailurePoints
  /\ resp.threw # tx[p].pc
  /\ resp' = [Respond(p, "patch", tx[p].changeType, tx[p].eventId, tx[p].body, 500)
                EXCEPT !.threw = tx[p].pc]
  /\ UNCHANGED <<cases, changes, tx, clock, okPatches>>
  /\ UNCHANGED <<engine, sessions, throttle>>

TxFails(p) ==
  /\ tx[p].pc \in FailurePoints
  /\ cases' = Rollback(tx[p], cases, changes).cases
  /\ changes' = Rollback(tx[p], cases, changes).changes
  /\ resp' = [Respond(p, "patch", tx[p].changeType, tx[p].eventId, tx[p].body, 500)
                EXCEPT !.threw = tx[p].pc]
  /\ tx' = [tx EXCEPT ![p] = IdleTx]
  /\ UNCHANGED <<clock, okPatches>>
  /\ UNCHANGED <<engine, sessions, throttle>>

\* The process dies inside the transaction: the database drops its writes and
\* nobody gets an answer.
Crash(p) ==
  /\ tx[p].pc # "idle"
  /\ cases' = Rollback(tx[p], cases, changes).cases
  /\ changes' = Rollback(tx[p], cases, changes).changes
  /\ tx' = [tx EXCEPT ![p] = IdleTx]
  /\ UNCHANGED <<clock, resp, okPatches>>
  /\ UNCHANGED <<engine, sessions, throttle>>

\* ------------------------------------------------------------ specifications
\* The requests of Spec and SpecImport: the ids they name, the bodies they carry.
CoreBodies(changeType) ==
  IF changeType = "OUTCOME_UPDATE" THEN {"o_full"}
  ELSE {"w_progress", "w_waiting"}

RejectedBodies(changeType) ==
  IF changeType = "OUTCOME_UPDATE" THEN {"o_time_neg"} ELSE {"w_status_bad"}

\* Spec: two connections to one database file, the transaction statement by
\* statement.
Next ==
  \/ \E p \in Conns : CreateCase(p, "urgent")
  \/ \E p \in Conns, ct \in ChangeTypes, id \in CreatedIds :
       \E body \in RejectedBodies(ct) : PatchRejected(p, ct, TRUE, id, body)
  \/ \E p \in Conns, ct \in ChangeTypes, id \in CreatedIds :
       \E body \in CoreBodies(ct) : PatchBusy(p, ct, id, body)
  \/ \E p \in Conns, ct \in ChangeTypes, id \in CreatedIds :
       \E body \in CoreBodies(ct) : PatchNotFound(p, ct, id, body)
  \/ \E p \in Conns, ct \in ChangeTypes, id \in CreatedIds :
       \E body \in CoreBodies(ct) :
         Len(changes) < MaxChanges /\ PatchBegin(p, ct, id, body)
  \/ \E p \in Conns : TxUpdate(p)
  \/ \E p \in Conns : TxInsert(p)
  \/ \E p \in Conns : TxCommit(p)
  \/ \E p \in Conns : TxFails(p)
  \/ \E p \in Conns : Crash(p)

Spec == Init /\ [][Next]_vars

\* SpecLive: the driver is synchronous, so a process that has begun a transaction
\* runs its next statement without waiting for anything.
SpecLive ==
  /\ Init
  /\ [][Next]_vars
  /\ \A p \in Conns : WF_vars(TxUpdate(p)) /\ WF_vars(TxInsert(p)) /\ WF_vars(TxCommit(p))

\* SpecImport: one process that restarts, with the legacy files it finds.
NextImport ==
  \/ \E files \in LegacyFiles : Startup("p1", files.history, files.changes)
  \/ \E files \in LegacyFiles, n \in 0..MaxLines :
       StartupDies("p1", files.history, files.changes, n)
  \/ CreateCase("p1", "urgent")
  \/ \E ct \in ChangeTypes, id \in AllIds :
       \E body \in CoreBodies(ct) : PatchNotFound("p1", ct, id, body)
  \/ \E ct \in ChangeTypes, id \in AllIds :
       \E body \in CoreBodies(ct) :
         Len(changes) < MaxChanges /\ Patch("p1", ct, id, body)
  \/ \E ct \in ChangeTypes, id \in AllIds, at \in FailurePoints :
       \E body \in CoreBodies(ct) : PatchThrows("p1", ct, id, body, at)

SpecImport == Init /\ [][NextImport]_vars

\* SpecValidate: one process and the request bodies of the model, with and
\* without a session, against a store of few cases and at most one ledger row.
ValidateIds == {EventIdOf(1), ""}

NextValidate ==
  \/ Tick
  \/ \E sample \in SampleInputs : CreateCase("p1", sample)
  \/ \E sample \in SampleInputs : CreateCaseFails("p1", sample)
  \/ \E ct \in ChangeTypes, authed \in BOOLEAN, id \in ValidateIds :
       \E body \in BodiesOf(ct) : PatchRejected("p1", ct, authed, id, body)
  \/ \E ct \in ChangeTypes, id \in ValidateIds :
       \E body \in BodiesOf(ct) : PatchNotFound("p1", ct, id, body)
  \/ \E ct \in ChangeTypes, id \in ValidateIds :
       \E body \in BodiesOf(ct) : changes = <<>> /\ Patch("p1", ct, id, body)

SpecValidate == Init /\ [][NextValidate]_vars

\* SpecPatch: the coordinators of two sessions patch one case several times, with
\* fields set, set to false, cleared and left out, while time passes.
PatchBodies(changeType) ==
  IF changeType = "OUTCOME_UPDATE" THEN {"o_full", "o_unresolved", "o_clear", "o_resolved"}
  ELSE {"w_progress", "w_waiting", "w_due", "w_new", "w_closed"}

PatchIds == {EventIdOf(1)}

NextPatch ==
  \/ Tick
  \/ \E p \in Conns : CreateCase(p, "urgent")
  \/ \E p \in Conns, ct \in ChangeTypes, id \in PatchIds :
       \E body \in PatchBodies(ct) :
         Len(changes) < MaxChanges /\ Patch(p, ct, id, body)

SpecPatch == Init /\ [][NextPatch]_vars

\* SpecAuth: one coordinator who logs in and out, while requests arrive with
\* every cookie: none, an unknown one, one of a session.
Cookies == {"", "unknown"} \cup {SessionIdOf(n) : n \in 1..MaxSessions}

\* What the attempts of one key amount to: the failed logins in a row outside a
\* block, when the last block began, and whether a login with the right
\* password was refused since.
Counted(credentials, now) ==
  LET inBlock == lockout.since # NoTime /\ now < lockout.since + AUTH_COOLDOWN
  IN IF inBlock
     THEN [lockout EXCEPT !.refused = @ \/ credentials = "right"]
     ELSE IF credentials = "right" THEN [lockout EXCEPT !.streak = 0]
     ELSE IF lockout.streak + 1 >= AUTH_MAX_FAILED_ATTEMPTS
     THEN [streak |-> 0, since |-> now, refused |-> FALSE]
     ELSE [lockout EXCEPT !.streak = @ + 1]

\* handleAuthLogin: credentials says whether verifyCredentials finds the user.
Login(p, credentials) ==
  LET current == getLoginThrottle(attempts, clock)
      failed == recordFailedLoginAttempt(attempts, clock, AUTH_MAX_FAILED_ATTEMPTS,
                                         AUTH_COOLDOWN)
      Answer(status) ==
        [Respond(p, "login", Absent, NoId, credentials, status) EXCEPT
           !.cookie = IF status = 200 THEN SessionIdOf(sessions.issued + 1) ELSE ""]
  IN /\ IF current.blocked
        THEN /\ resp' = Answer(429)
             /\ UNCHANGED <<sessions, attempts>>
        ELSE IF credentials # "right"
        THEN /\ attempts' = failed.row
             /\ resp' = Answer(IF failed.blocked THEN 429 ELSE 401)
             /\ UNCHANGED sessions
        ELSE /\ sessions.issued < MaxSessions
             /\ attempts' = clearLoginThrottle(attempts)
             /\ sessions' = createSession(sessions, EditorOf(p), "COORDINATOR", clock)
             /\ resp' = Answer(200)
     /\ lockout' = Counted(credentials, clock)
     /\ UNCHANGED <<cases, changes, clock, tx, okPatches>>
     /\ UNCHANGED engine

\* handleAuthLogout
Logout(p, cookie) ==
  /\ sessions' = IF cookie # "" THEN deleteSession(sessions, cookie) ELSE sessions
  /\ resp' = [Respond(p, "logout", Absent, NoId, Absent, 200) EXCEPT !.cookie = cookie]
  /\ UNCHANGED <<cases, changes, clock, tx, okPatches>>
  /\ UNCHANGED <<engine, throttle>>

\* POST /api/postpartum/audit/outcome and /workflow: readJson, then the handler
\* with requireRole, the validation and the store.  JSON.parse rejects the body
\* "not_json".
PatchRoute(p, changeType, cookie, eventId, body) ==
  LET auth == requireRole(sessions, cookie, clock, {"COORDINATOR", "ADMIN"})
      invalid == Validate(changeType, TRUE, eventId, body)
      t == TxAt("commit", p, changeType, eventId, body, cases, changes, clock)
      Answer(status) ==
        [Respond(p, "patch", changeType, eventId, body, status) EXCEPT !.cookie = cookie]
  IN /\ tx[p].pc = "idle"
     /\ LockFree(p)
     /\ IF body = "not_json"
        THEN /\ resp' = [Answer(500) EXCEPT !.threw = "readJson"]
             /\ UNCHANGED <<cases, changes, okPatches, sessions>>
        ELSE IF auth.status # 0
        THEN /\ resp' = Answer(auth.status)
             /\ sessions' = auth.sessions
             /\ UNCHANGED <<cases, changes, okPatches>>
        ELSE IF invalid # 0
        THEN /\ resp' = Answer(invalid)
             /\ UNCHANGED <<cases, changes, okPatches, sessions>>
        ELSE IF eventId \notin DOMAIN cases
        THEN /\ resp' = Answer(404)
             /\ UNCHANGED <<cases, changes, okPatches, sessions>>
        ELSE /\ Len(changes) < MaxChanges
             /\ cases' = Commit(t, cases, changes).cases
             /\ changes' = Commit(t, cases, changes).changes
             /\ okPatches' = [okPatches EXCEPT ![eventId] = @ + 1]
             /\ resp' = Answer(200)
             /\ UNCHANGED sessions
     /\ UNCHANGED <<clock, tx>>
     /\ UNCHANGED <<engine, throttle>>

\* GET /api/postpartum/audit/changes?limit=raw
ChangesRoute(p, cookie, raw) ==
  LET auth == requireRole(sessions, cookie, clock, {"COORDINATOR", "ADMIN"})
      limit == parsePositiveInt(raw, 50, 200)
      Answer(status) ==
        [Respond(p, "changes", Absent, NoId, Absent, status) EXCEPT
           !.cookie = cookie, !.query = raw]
  IN /\ sessions' = auth.sessions
     /\ resp' = IF auth.status # 0 THEN Answer(auth.status)
                ELSE [Answer(200) EXCEPT
                        !.limit = limit,
                        !.list = readRecentChangeEvents(changes, Finite(limit, FALSE))]
     /\ UNCHANGED <<cases, changes, clock, tx, okPatches>>
     /\ UNCHANGED <<engine, throttle>>

\* Per route a body that passes the validation, one that does not, and one that
\* is not JSON.
AuthBodies(changeType) ==
  IF changeType = "OUTCOME_UPDATE" THEN {"o_full", "o_time_neg", "not_json"}
  ELSE {"w_waiting", "w_status_bad", "not_json"}

NextAuth ==
  \/ Tick
  \/ CreateCase("p1", "urgent")
  \/ Login("p1", "right")
  \/ \E cookie \in Cookies : Logout("p1", cookie)
  \/ \E ct \in ChangeTypes, cookie \in Cookies :
       \E body \in AuthBodies(ct) : PatchRoute("p1", ct, cookie, EventIdOf(1), body)
  \/ \E cookie \in Cookies, raw \in {Absent, "1"} : ChangesRoute("p1", cookie, raw)

SpecAuth == Init /\ [][NextAuth]_vars

\* SpecLogin: logins of one user from one address with right and wrong passwords,
\* over the cool-down period and past it.
NextLogin ==
  \/ TickUpTo(MaxTicks)
  \/ \E credentials \in {"right", "wrong"} : Login("p1", credentials)

SpecLogin == Init /\ [][NextLogin]_vars

\* GET /api/postpartum/audit/recent?limit=raw
RecentRoute(p, raw) ==
  LET limit == parsePositiveInt(raw, 50, 200)
  IN /\ resp' = [Respond(p, "recent", Absent, NoId, Absent, 200) EXCEPT
                   !.query = raw, !.limit = limit,
                   !.list = getRecent(cases, Finite(limit, FALSE))]
     /\ UNCHANGED <<cases, changes, clock, tx, okPatches>>
     /\ UNCHANGED <<engine, sessions, throttle>>

\* SpecRecent: one process that imports, creates and patches cases over several
\* seconds, and lists the recent cases with every limit parameter of the model.
RawLimits == {Absent, "", "1", "2", "200", "201", "0", "-3", "0.5", "2.5", "2abc", "abc"}

NextRecent ==
  \/ TickUpTo(MaxTicks)
  \/ \E files \in LegacyFiles : Startup("p1", files.history, files.changes)
  \/ CreateCase("p1", "urgent")
  \/ \E ct \in ChangeTypes, id \in PatchIds :
       \E body \in CoreBodies(ct) : Len(changes) < MaxChanges /\ Patch("p1", ct, id, body)
  \/ \E raw \in RawLimits : RecentRoute("p1", raw)

SpecRecent == Init /\ [][NextRecent]_vars

\* ------------------------------------------------------- the decision engine
\* What a questionnaire says outside the red-flag questions.
OtherAnswers(profile) ==
  IF profile = "scored"
  THEN [BlankInput EXCEPT !.b.depressedMoodMostDays = "true",
                          !.b.functionalImpairmentMental = "true",
                          !.b.fecalIncontinenceAny = "true",
                          !.b.poorSocialSupport = "false",
                          !.weeksPostpartum = 10]
  ELSE IF profile = "uncertain"
  THEN [BlankInput EXCEPT !.b.cannotAnswerCriticalQuestions = "true",
                          !.b.userUncertainOnSafetyQuestions = "true",
                          !.inconsistencyLevel = "MAJOR"]
  ELSE IF profile = "scoredUnsure"
  THEN [BlankInput EXCEPT !.b.depressedMoodMostDays = "true",
                          !.b.functionalImpairmentMental = "true",
                          !.b.userUncertainOnSafetyQuestions = "true",
                          !.weeksPostpartum = 10]
  ELSE IF profile = "threshold"
  THEN [BlankInput EXCEPT !.b.depressedMoodMostDays = "true",
                          !.b.anxietyOrPanicMostDays = "true",
                          !.b.functionalImpairmentMental = "false",
                          !.weeksPostpartum = 3]
  ELSE IF profile = "below"
  THEN [BlankInput EXCEPT !.b.depressedMoodMostDays = "true",
                          !.b.poorSocialSupport = "true",
                          !.b.functionalImpairmentPelvic = "false",
                          !.weeksPostpartum = 3,
                          !.inconsistencyLevel = "NONE"]
  ELSE IF profile = "history"
  THEN [BlankInput EXCEPT !.b.poorSocialSupport = "true",
                          !.weeksPostpartum = 3,
                          !.inconsistencyLevel = "MINOR"]
  ELSE IF profile = "pelvic"
  THEN [BlankInput EXCEPT !.b.fecalIncontinenceAny = "true",
                          !.b.prolapseBulgeSymptoms = "true",
                          !.b.functionalImpairmentPelvic = "false",
                          !.weeksPostpartum = 3]
  ELSE IF profile = "nearTie"
  THEN [BlankInput EXCEPT !.b.functionalImpairmentMental = "true",
                          !.b.urinaryRetention = "true",
                          !.weeksPostpartum = 3]
  ELSE IF profile = "sixWeeks"
  THEN [BlankInput EXCEPT !.b.anhedonia = "true",
                          !.b.functionalImpairmentPelvic = "true",
                          !.weeksPostpartum = 6]
  ELSE IF profile = "lateNoMood"
  THEN [BlankInput EXCEPT !.b.bondingDifficulty = "true",
                          !.b.depressedMoodMostDays = "false",
                          !.weeksPostpartum = 7]
  ELSE IF profile = "moodNoWeeks"
  THEN [BlankInput EXCEPT !.b.anxietyOrPanicMostDays = "true",
                          !.b.functionalImpairmentMental = "false"]
  ELSE BlankInput

Profiles ==
  {"blank", "scored", "uncertain", "scoredUnsure", "threshold", "below", "history",
   "pelvic", "nearTie", "sixWeeks", "lateNoMood", "moodNoWeeks"}

\* The questionnaire with the red-flag answers rf on top of a profile.
InputOf(rf, profile) ==
  [OtherAnswers(profile) EXCEPT
     !.b = [f \in BoolFields |-> IF f \in RedFlagFields THEN rf[f] ELSE @[f]]]

\* The rule sets a process can have loaded: every one lists the six red flags,
\* the third one in another order.
RuleSets ==
  {SampleRules,
   [SampleRules EXCEPT !.urgentSameDayMin = 1,
                       !.criticalInputs = {"weeksPostpartum", "inconsistencyLevel"}],
   [SampleRules EXCEPT !.redFlagRules =
      <<"PP_RF006", "PP_RF004", "PP_RF005", "PP_RF001", "PP_RF003", "PP_RF002">>]}

InitEval ==
  /\ cases = <<>>
  /\ changes = <<>>
  /\ clock = 0
  /\ tx = [p \in Conns |-> IdleTx]
  /\ resp = NoResp
  /\ okPatches = [id \in AllIds |-> 0]
  /\ evalInput \in {InputOf(rf, profile) :
                      rf \in [RedFlagFields -> {Absent, "true", "false"}],
                      profile \in Profiles}
  /\ evalRules \in RuleSets
  /\ evalResult = NoResult
  /\ sessions = NoSessions
  /\ attempts = NoAttempts
  /\ lockout = NoLockout

\* handleEvaluate's call of the engine.
Evaluate ==
  /\ evalResult = NoResult
  /\ evalResult' = evaluatePostpartumTriage(evalInput, evalRules)
  /\ UNCHANGED <<cases, changes, clock, tx, resp, okPatches, evalInput, evalRules, sessions,
               throttle>>

NextEval == Evaluate

SpecEval == InitEval /\ [][NextEval]_vars

\* ===================================================================== claims
\* The red-flag predicates as the specification lists them.
RedFlagHolds(i) ==
  \/ i.b.suicidalIdeationNow = "true" /\ i.b.suicidalIntentOrPlan = "true"
  \/ i.b.thoughtsOfHarmingBaby = "true"
  \/ i.b.psychosisWarningSigns = "true"
  \/ i.b.heavyBleedingEmergencyPattern = "true"
  \/ i.b.highFeverAndSeverePain = "true"
  \/ i.b.syncopeOrCollapse = "true"
  \/ i.b.chestPainOrSevereBreathlessness = "true"

Evaluated == evalResult # NoResult

\* C10: red-flag dominance.  Whenever the engine has evaluated an input for which
\* one of the six red-flag predicates holds, the decision is EMERGENCY with
\* isEmergency true, a score total of 0 and uncertainty not triggered, whatever
\* the other answers and the rule set's threshold and critical inputs are.
C10_RedFlagDominance ==
  (Evaluated /\ RedFlagHolds(evalInput)) =>
    /\ evalResult.level = EMERGENCY
    /\ evalResult.isEmergency = TRUE
    /\ evalResult.scoreBreakdown.total = 0
    /\ evalResult.uncertainty.triggered = FALSE

\* C10 witness: a decision for an input whose only red flag is severe
\* breathlessness, with scoring answers and uncertainty answers that would
\* otherwise decide the level.
C10_Witness ==
  /\ Evaluated
  /\ evalInput.b.chestPainOrSevereBreathlessness = "true"
  /\ \A f \in RedFlagFields \ {"chestPainOrSevereBreathlessness"} : evalInput.b[f] # "true"
  /\ evalInput.b.depressedMoodMostDays = "true"
  /\ evalResult.level = EMERGENCY
  /\ calculateScore(evalInput, evalRules).total > 0

\* The rows of the ledger that reference a case.
ChangesOf(id) == {i \in DOMAIN changes : changes[i].eventId = id}

AllIdle == \A p \in Conns : tx[p].pc = "idle"

\* C1: for every caseId the number of ledger entries that reference it equals
\* the number of patch calls against it that returned success; rejected,
\* not-found, busy and failed patches add none.
C1_LedgerCountsSuccesses ==
  /\ \A i \in DOMAIN changes : changes[i].eventId \in AllIds
  /\ \A id \in AllIds : Cardinality(ChangesOf(id)) = okPatches[id]

\* C1 witness: two patches of a case have succeeded and the last answer is the
\* rejection of a third one against the same case.
C1_Witness ==
  /\ okPatches[EventIdOf(1)] = 2
  /\ Cardinality(ChangesOf(EventIdOf(1))) = 2
  /\ resp.op = "patch" /\ resp.status = 400 /\ resp.eventId = EventIdOf(1)

\* C2: a step in which a statement of a patch transaction throws (or the process
\* dies inside the transaction) leaves the case table and the ledger as they were,
\* the stored case still is the record the transaction read when it began, and
\* when the statement threw the caller gets the failure (500).
C2_FailureRollsBack ==
  [][\A p \in Conns :
       /\ (tx[p].pc # "idle" /\ tx'[p].pc = "idle" /\ okPatches' = okPatches) =>
            /\ cases' = cases
            /\ changes' = changes
            /\ normalizeEvent(cases'[tx[p].eventId]) = tx[p].before
       /\ TxFails(p) =>
            /\ resp'.status = 500
            /\ resp'.eventId = tx[p].eventId
            /\ resp'.threw = tx[p].pc]_vars

\* C2 witness: the COMMIT of a patch threw after both rows were written; the case
\* has no editor and the ledger is empty.
C2_Witness ==
  /\ resp.op = "patch" /\ resp.status = 500 /\ resp.threw = "commit"
  /\ AllIdle
  /\ resp.eventId \in DOMAIN cases
  /\ cases[resp.eventId].last_updated_by = Absent
  /\ changes = <<>>

\* A field of a case by the name it has in a patch.
FieldOf(event, f) == IF f \in OutcomeFields THEN event.outcome[f] ELSE event.workflow[f]

\* C3: patches of one case are serialized.  A transaction in progress has read the
\* record that is committed now (nobody committed since it began), and every
\* field a committed patch set, and no later committed patch of that case set
\* again, still has that value in the stored case: no update is lost.
C3_SerializedPatches ==
  /\ \A p \in Conns :
       tx[p].pc # "idle" =>
         /\ tx[p].eventId \in DOMAIN cases
         /\ tx[p].before = normalizeEvent(cases[tx[p].eventId])
  /\ \A i \in DOMAIN changes, f \in PatchFields :
       (/\ changes[i].patch[f] # Absent
        /\ \A j \in DOMAIN changes :
             (j > i /\ changes[j].eventId = changes[i].eventId) => changes[j].patch[f] = Absent)
       => /\ changes[i].eventId \in DOMAIN cases
          /\ FieldOf(cases[changes[i].eventId], f) = changes[i].patch[f]

\* C3 witness: ops-a's outcome patch and then ops-b's workflow patch of the same
\* case have committed; the second read the first one's record, and the stored
\* case has the fields of both.
C3_Witness ==
  /\ Len(changes) = 2
  /\ changes[1].eventId = EventIdOf(1) /\ changes[2].eventId = EventIdOf(1)
  /\ changes[1].changeType = "OUTCOME_UPDATE" /\ changes[1].editor = "ops-a"
  /\ changes[2].changeType = "WORKFLOW_UPDATE" /\ changes[2].editor = "ops-b"
  /\ changes[2].before.outcome.notes = "Reached care quickly"
  /\ cases[EventIdOf(1)].outcome.notes = "Reached care quickly"
  /\ cases[EventIdOf(1)].workflow.status = "IN_PROGRESS"

\* C4: consecutive ledger entries of one case chain: the before snapshot of an
\* entry is the after snapshot of the previous entry of that case; and two
\* successful patches of a case have left exactly two entries for it.
C4_BeforeAfterChain ==
  /\ \A i \in DOMAIN changes, j \in DOMAIN changes :
       (/\ i < j
        /\ changes[i].eventId = changes[j].eventId
        /\ \A k \in DOMAIN changes : (i < k /\ k < j) => changes[k].eventId # changes[i].eventId)
       => changes[j].before = changes[i].after
  /\ \A id \in AllIds : okPatches[id] = 2 => Cardinality(ChangesOf(id)) = 2

\* C4 witness: two workflow patches of one case by different editors have
\* committed, the second on top of the first.
C4_Witness ==
  /\ Len(changes) = 2
  /\ changes[1].eventId = changes[2].eventId
  /\ changes[1].changeType = "WORKFLOW_UPDATE" /\ changes[2].changeType = "WORKFLOW_UPDATE"
  /\ changes[1].editor # changes[2].editor
  /\ changes[1].after.workflow.status = "IN_PROGRESS"
  /\ changes[2].before.workflow.status = "IN_PROGRESS"
  /\ changes[2].after.workflow.status = "WAITING"

\* C8: a patch that passes validation and names a case the table does not hold is
\* answered 404 and changes nothing: no case is created or changed, no ledger
\* row is appended and no transaction stays open.  (With the write lock held by
\* another connection the answer is the 500 of BEGIN IMMEDIATE instead.)
C8_NotFoundHasNoEffect ==
  /\ [](/\ \A p \in Conns : tx[p].pc # "idle" => tx[p].eventId \in DOMAIN cases
        /\ \A id \in AllIds : okPatches[id] > 0 => id \in DOMAIN cases
        /\ (resp.op = "patch" /\ resp.status = 404) => resp.eventId \notin DOMAIN cases)
  /\ [][(/\ AllIdle
         /\ resp' # resp
         /\ resp'.op = "patch"
         /\ resp'.eventId \notin DOMAIN cases
         /\ Validate(resp'.changeType, TRUE, resp'.eventId, resp'.body) = 0)
        => (/\ resp'.status = 404
            /\ cases' = cases
            /\ changes' = changes
            /\ tx' = tx
            /\ okPatches' = okPatches)]_vars

\* C8 witness: the last answer is the 404 of a patch of a case that does not
\* exist, in a store that holds another case and a ledger row.
C8_Witness ==
  /\ resp.op = "patch" /\ resp.status = 404
  /\ resp.eventId = EventIdOf(2)
  /\ DOMAIN cases = {EventIdOf(1)}
  /\ Len(changes) = 1
  /\ AllIdle

\* The last row of the ledger that references a case.
LastChangeOf(id) == changes[CHOOSE i \in ChangesOf(id) : \A j \in ChangesOf(id) : j <= i]

\* C5: for every case with at least one ledger row, the outcome and the workflow
\* stored in the case table equal those of the after snapshot of its last row.
C5_TableMatchesLedger ==
  \A id \in DOMAIN cases :
    ChangesOf(id) # {} =>
      /\ cases[id].outcome = LastChangeOf(id).after.outcome
      /\ cases[id].workflow = LastChangeOf(id).after.workflow

\* C6: every ledger row references a case of the case table.
C6_LedgerRefersToCases ==
  \A i \in DOMAIN changes : changes[i].eventId \in DOMAIN cases

\* C7: the ledger is append-only.  Across every step (a start with its legacy
\* import, a create, a patch that commits, is refused or throws) the rows the
\* ledger had are still there, unchanged and in place; rows are only added after
\* them.
C7_LedgerAppendOnly ==
  [][/\ Len(changes') >= Len(changes)
     /\ SubSeq(changes', 1, Len(changes)) = changes]_vars

\* C7 witness: the imported legacy row is still the first row after a patch has
\* appended a second one.
C7_Witness ==
  /\ Len(changes) = 2
  /\ changes[1] = StringifyChange(LegacyChange)
  /\ changes[2].changeId = NewChangeId(<<changes[1]>>)
  /\ changes[2].editor = "ops-a"

\* What the specification says a patch handler refuses, read off the raw body.
IsNumeral(s) == s \in {"0", "2", "-1"}

CareTimeRefused(v) ==
  /\ v.k \notin {"missing", "null"}
  /\ IF v.k = "number" THEN v.s = "-1" \/ v.s = "NaN"
     ELSE IF v.k = "string"
     THEN Trim(v.s) # "" /\ (~IsNumeral(Trim(v.s)) \/ Trim(v.s) = "-1")
     ELSE TRUE

CareTypeRefused(v) ==
  /\ v.k \notin {"missing", "null"}
  /\ ~(v.k = "string" /\ (Trim(v.s) = "" \/ ToUpperCase(Trim(v.s)) \in CareTypes))

StatusRefused(v) ==
  /\ v.k # "missing"
  /\ ~(v.k = "string" /\ ToUpperCase(Trim(v.s)) \in Statuses)

DateRefused(v) ==
  /\ v.k \notin {"missing", "null"}
  /\ ~(v.k = "string" /\ (Trim(v.s) = "" \/ DateToISOString(Trim(v.s)) # "Invalid Date"))

ClaimRefuses(changeType, body) ==
  LET raw == BodyOf(changeType, body)
  IN IF changeType = "OUTCOME_UPDATE"
     THEN \/ \A f \in OutcomeFields : raw[f].k = "missing"
          \/ CareTimeRefused(raw.care_time)
          \/ CareTypeRefused(raw.care_type)
     ELSE \/ \A f \in WorkflowFields : raw[f].k = "missing"
          \/ StatusRefused(raw.status)
          \/ DateRefused(raw.follow_up_due_at)
          \/ DateRefused(raw.last_contact_at)

\* C9: the answer to a patch of a signed-in coordinator whose field set is empty
\* or that carries a negative or non-numeric care_time, an unrecognized
\* care_type, a status outside NEW/IN_PROGRESS/WAITING/CLOSED or an unparseable
\* follow_up_due_at/last_contact_at is the validation error 400, whether or not
\* the case exists.
C9_InvalidPatchRejected ==
  (/\ resp.op = "patch"
   /\ resp.status # 401
   /\ ClaimRefuses(resp.changeType, resp.body))
  => resp.status = 400

\* C11: a start that finds at least one case in the case table imports nothing:
\* it leaves the case table and the ledger as they were.
C11_ImportOnlyIfCasesEmpty ==
  [][(resp'.op = "migrate" /\ DOMAIN cases # {})
     => (cases' = cases /\ changes' = changes)]_vars

\* C12: a start that reads the files the start right before it read reports zero
\* imported cases and zero imported changes, and leaves both tables as they were.
C12_SecondImportIsEmpty ==
  /\ [](resp.op = "migrate" /\ resp.again
        => resp.importedEvents = 0 /\ resp.importedChanges = 0)
  /\ [][(resp'.op = "migrate" /\ resp'.again)
        => (cases' = cases /\ changes' = changes)]_vars

\* A second start on files from which the first start imported rows.
C12_Witness ==
  /\ resp.op = "migrate" /\ resp.again /\ resp.earlier > 0
  /\ resp.files.history # <<>> /\ resp.files.changes # <<>>
  /\ LegacyId \in DOMAIN cases

\* C13: ids stay unique (one case per eventId, one ledger row per changeId), and
\* the counts a start returns are the numbers of rows it added to the tables.
C13_ConflictIgnore ==
  /\ [](/\ \A id \in DOMAIN cases : cases[id].eventId = id
        /\ \A i, j \in DOMAIN changes :
             changes[i].changeId = changes[j].changeId => i = j)
  /\ [][resp'.op = "migrate"
        => /\ resp'.importedEvents = Cardinality(DOMAIN cases') - Cardinality(DOMAIN cases)
           /\ resp'.importedChanges = Len(changes') - Len(changes)]_vars

\* A start whose files hold the same case and the same change twice: one row each.
C13_Witness ==
  /\ resp.op = "migrate"
  /\ Len(resp.files.history) = 2 /\ Len(resp.files.changes) = 2
  /\ resp.importedEvents = 1 /\ resp.importedChanges = 1
  /\ Cardinality(DOMAIN cases) = 1 /\ Len(changes) = 1

\* A create answered 200 in this step.
Created == resp' # resp /\ resp'.op = "evaluate" /\ resp'.status = 200

\* C14: every successful create adds exactly one case under an id the table did
\* not hold and leaves the other cases as they were, whatever the decision; so n
\* successful creates leave n cases with pairwise distinct ids.
C14_CreatesAreDistinct ==
  [][Created =>
       /\ resp'.eventId \notin DOMAIN cases
       /\ DOMAIN cases' = DOMAIN cases \cup {resp'.eventId}
       /\ cases'[resp'.eventId].eventId = resp'.eventId
       /\ \A id \in DOMAIN cases : cases'[id] = cases[id]]_vars

\* Two cases that differ in nothing but their ids, after a second create with the
\* decision of the first.
C14_Witness ==
  /\ resp.op = "evaluate" /\ resp.status = 200 /\ resp.eventId = EventIdOf(2)
  /\ DOMAIN cases = {EventIdOf(1), EventIdOf(2)}
  /\ [cases[EventIdOf(1)] EXCEPT !.eventId = NoId] = [cases[EventIdOf(2)] EXCEPT !.eventId = NoId]

\* A start that answered in this step.
Migrated == resp' # resp /\ resp'.op = "migrate"

\* C15: every case read from the store has a workflow with one of the four
\* statuses; a case just created has the workflow NEW and no outcome; a legacy
\* case without workflow reads CLOSED when its outcome is resolved, NEW otherwise.
C15_WorkflowAlwaysPresent ==
  /\ [](\A id \in DOMAIN cases :
          /\ readRecentAuditEvents(cases)[id].workflow.present
          /\ readRecentAuditEvents(cases)[id].workflow.status \in Statuses)
  /\ [][Created =>
          /\ readRecentAuditEvents(cases')[resp'.eventId].workflow.status = "NEW"
          /\ ~readRecentAuditEvents(cases')[resp'.eventId].outcome.present]_vars
  /\ [][Migrated =>
          \A i \in DOMAIN resp'.files.history :
            LET e == resp'.files.history[i]
            IN (e.eventId \notin DOMAIN cases /\ e.eventId \in DOMAIN cases'
                /\ ~e.workflow.present)
               => readRecentAuditEvents(cases')[e.eventId].workflow.status
                  = IF e.outcome.present /\ e.outcome.resolved = "true"
                    THEN "CLOSED" ELSE "NEW"]_vars

\* A legacy case that got its workflow CLOSED from its resolved outcome, next to a
\* created case that a patch moved to WAITING.
C15_Witness ==
  /\ LegacyId \in DOMAIN cases
  /\ cases[LegacyId].workflow.status = "CLOSED"
  /\ cases[LegacyId].workflow.updated_by = "system"
  /\ \E id \in CreatedIds \cap DOMAIN cases : cases[id].workflow.status = "WAITING"

\* The sub-record a patch of the given type writes.
SubRecord(event, changeType) ==
  IF changeType = "OUTCOME_UPDATE" THEN event.outcome ELSE event.workflow

SubFields(changeType) ==
  IF changeType = "OUTCOME_UPDATE" THEN OutcomeFields ELSE WorkflowFields

\* What a request asks a field to become: true, false and numbers as given, null
\* clears the field, a string is its normalized form.
Requested(raw, f) ==
  IF raw[f].k \in {"boolean", "number"} THEN raw[f].s
  ELSE IF raw[f].k = "null" THEN Absent
  ELSE DropUndef(ParsedField(raw, f).value)

\* C16: a successful patch gives every field present in the request the requested
\* value and leaves every other field of the patched sub-record as it was read
\* before the patch.
C16_PatchTouchesOnlyPresentFields ==
  [][\A p \in Conns, ct \in ChangeTypes, id \in PatchIds :
       \A body \in PatchBodies(ct) :
         Patch(p, ct, id, body) =>
           \A f \in SubFields(ct) :
             SubRecord(cases'[id], ct)[f]
             = IF hasOwn(BodyOf(ct, body), f) THEN Requested(BodyOf(ct, body), f)
               ELSE SubRecord(readRecentAuditEvents(cases)[id], ct)[f]]_vars

\* A case whose outcome kept the care type and the notes of a first patch while a
\* second patch set care_sought and resolved to false.
C16_Witness ==
  /\ EventIdOf(1) \in DOMAIN cases
  /\ Len(changes) = 2
  /\ resp.op = "patch" /\ resp.status = 200 /\ resp.body = "o_unresolved"
  /\ cases[EventIdOf(1)].outcome.care_sought = "false"
  /\ cases[EventIdOf(1)].outcome.resolved = "false"
  /\ cases[EventIdOf(1)].outcome.care_type = "OBGYN"
  /\ cases[EventIdOf(1)].outcome.care_time = "2"

\* C17: after a successful patch by editor e at time t the patched sub-record and
\* the case carry the stamps e and t, and the ledger row of the patch names e.
C17_StampsNameEditorAndTime ==
  [][\A p \in Conns, ct \in ChangeTypes, id \in PatchIds :
       \A body \in PatchBodies(ct) :
         Patch(p, ct, id, body) =>
           /\ SubRecord(cases'[id], ct).updated_by = EditorOf(p)
           /\ SubRecord(cases'[id], ct).updated_at = clock
           /\ cases'[id].last_updated_by = EditorOf(p)
           /\ cases'[id].last_updated_at = clock
           /\ Len(changes') = Len(changes) + 1
           /\ changes'[Len(changes')].editor = EditorOf(p)
           /\ changes'[Len(changes')].eventId = id]_vars

\* A case created at time 0, whose outcome the first editor patched at time 0 and
\* whose workflow the second editor patched at time 1.
C17_Witness ==
  /\ EventIdOf(1) \in DOMAIN cases
  /\ Len(changes) = 2
  /\ cases[EventIdOf(1)].outcome.updated_by = "ops-a"
  /\ cases[EventIdOf(1)].outcome.updated_at = 0
  /\ cases[EventIdOf(1)].workflow.updated_by = "ops-b"
  /\ cases[EventIdOf(1)].workflow.updated_at = 1
  /\ cases[EventIdOf(1)].last_updated_by = "ops-b"
  /\ cases[EventIdOf(1)].last_updated_at = 1
  /\ changes[2].editor = "ops-b"

\* The tier right above a base level.
TierAbove(level) == IF level = ROUTINE THEN URGENT ELSE EMERGENCY

\* The base level the specification derives from the score of a decision.
BaseLevelOf(result, rules) ==
  IF result.scoreBreakdown.total >= rules.urgentSameDayMin THEN URGENT ELSE ROUTINE

\* C18: without a fired red flag, triggered uncertainty puts the level exactly one
\* tier above the base level and records escalatedFrom = base, escalatedTo = level;
\* without triggered uncertainty the level is the base level and neither is recorded.
C18_EscalatesOneTier ==
  (Evaluated /\ ~RedFlagHolds(evalInput)) =>
    IF evalResult.uncertainty.triggered
    THEN /\ evalResult.level = TierAbove(BaseLevelOf(evalResult, evalRules))
         /\ evalResult.uncertainty.escalatedFrom = BaseLevelOf(evalResult, evalRules)
         /\ evalResult.uncertainty.escalatedTo = evalResult.level
    ELSE /\ evalResult.level = BaseLevelOf(evalResult, evalRules)
         /\ evalResult.uncertainty.escalatedFrom = Absent
         /\ evalResult.uncertainty.escalatedTo = Absent

\* A decision escalated from URGENT to EMERGENCY by uncertainty alone.
C18_Witness ==
  /\ Evaluated /\ ~RedFlagHolds(evalInput)
  /\ evalResult.uncertainty.triggered
  /\ evalResult.uncertainty.escalatedFrom = URGENT
  /\ evalResult.level = EMERGENCY

\* The base level a decision shows: escalatedFrom when it was escalated, else the level.
ShownBase(result) ==
  IF result.uncertainty.triggered THEN result.uncertainty.escalatedFrom ELSE result.level

\* C19: without a fired red flag the base level is URGENT when the score total is
\* at or above the threshold and ROUTINE when it is below; a total equal to the
\* threshold, not escalated, is classified URGENT.
C19_ThresholdInclusive ==
  (Evaluated /\ ~RedFlagHolds(evalInput)) =>
    /\ evalResult.scoreBreakdown.total >= evalRules.urgentSameDayMin
         => ShownBase(evalResult) = URGENT
    /\ evalResult.scoreBreakdown.total < evalRules.urgentSameDayMin
         => ShownBase(evalResult) = ROUTINE
    /\ (evalResult.scoreBreakdown.total = evalRules.urgentSameDayMin
        /\ ~evalResult.uncertainty.triggered)
         => evalResult.level = URGENT

\* A score of exactly the threshold, not escalated, classified URGENT.
C19_Witness ==
  /\ Evaluated /\ ~RedFlagHolds(evalInput)
  /\ evalResult.scoreBreakdown.total = evalRules.urgentSameDayMin
  /\ ~evalResult.uncertainty.triggered
  /\ evalResult.level = URGENT

\* The conditions of the bucket rule, read from the input and the missing count.
LowCondition ==
  \/ evalResult.confidence.missingCriticalInputs >= 2
  \/ evalInput.inconsistencyLevel = "MAJOR"
  \/ evalInput.b.userUncertainOnSafetyQuestions = "true"

MediumCondition ==
  \/ evalResult.confidence.missingCriticalInputs = 1
  \/ evalInput.inconsistencyLevel = "MINOR"

\* The critical inputs of the rule set that the input leaves unanswered.
MissingCritical ==
  {key \in evalRules.criticalInputs :
     IF key = "functionalImpairmentOverall"
     THEN evalInput.b.functionalImpairmentMental = Absent
          /\ evalInput.b.functionalImpairmentPelvic = Absent
     ELSE IF key = "weeksPostpartum" THEN evalInput.weeksPostpartum = NoWeeks
     ELSE IF key = "inconsistencyLevel" THEN evalInput.inconsistencyLevel = Absent
     ELSE evalInput.b[key] = Absent}

\* C20: the bucket is LOW when a LOW condition holds, else MEDIUM when a MEDIUM
\* condition holds, else HIGH; the missing count is the number of critical inputs
\* the input leaves unanswered.
C20_BucketPrecedence ==
  Evaluated =>
    /\ evalResult.confidence.missingCriticalInputs = Cardinality(MissingCritical)
    /\ evalResult.confidence.bucket
       = IF LowCondition THEN "LOW" ELSE IF MediumCondition THEN "MEDIUM" ELSE "HIGH"

\* A LOW condition and a MEDIUM condition at once: the bucket is LOW.
C20_Witness ==
  /\ Evaluated
  /\ evalResult.confidence.missingCriticalInputs >= 2
  /\ evalInput.inconsistencyLevel = "MINOR"
  /\ evalResult.confidence.bucket = "LOW"

\* The reason codes that apply to the evaluated input, as the specification lists them.
ApplicableReasons ==
  (IF evalInput.b.cannotAnswerCriticalQuestions = "true"
   THEN {"cannotAnswerCriticalQuestions"} ELSE {})
  \cup (IF Cardinality(MissingCritical) > 2
        THEN {"missingMoreThanTwoCriticalInputs"} ELSE {})
  \cup (IF evalInput.inconsistencyLevel = "MAJOR" THEN {"majorInconsistency"} ELSE {})
  \cup (IF evalInput.b.userUncertainOnSafetyQuestions = "true"
        THEN {"userUncertainOnSafetyQuestions"} ELSE {})
  \cup (IF evalResult.confidence.bucket = "LOW" THEN {"lowConfidence"} ELSE {})

\* C21: without a fired red flag the reasons of the decision are exactly the
\* applicable reason codes, each once, and triggered says whether there is one.
C21_ReasonsAreTheApplicableCodes ==
  (Evaluated /\ ~RedFlagHolds(evalInput)) =>
    /\ {evalResult.uncertainty.reasons[i] : i \in DOMAIN evalResult.uncertainty.reasons}
       = ApplicableReasons
    /\ Len(evalResult.uncertainty.reasons) = Cardinality(ApplicableReasons)
    /\ evalResult.uncertainty.triggered <=> ApplicableReasons # {}

\* Two missing critical inputs: the bucket is LOW, "more than two missing" is not
\* among the reasons.
C21_Witness ==
  /\ Evaluated /\ ~RedFlagHolds(evalInput)
  /\ Cardinality(MissingCritical) = 2
  /\ evalResult.uncertainty.triggered
  /\ evalResult.uncertainty.reasons = <<"lowConfidence">>

\* The three levels, and their order of urgency.
Levels == {ROUTINE, URGENT, EMERGENCY}

LevelRank(level) == IF level = ROUTINE THEN 0 ELSE IF level = URGENT THEN 1 ELSE 2

\* C22: escalateOneLevel maps every level to a level at least as urgent, maps
\* EMERGENCY to EMERGENCY, and applied twice to ROUTINE gives EMERGENCY; an escalated
\* decision is never less urgent than its base level.
C22_EscalationIsMonotone ==
  /\ \A level \in Levels :
       /\ escalateOneLevel(level) \in Levels
       /\ LevelRank(escalateOneLevel(level)) >= LevelRank(level)
  /\ escalateOneLevel(EMERGENCY) = EMERGENCY
  /\ escalateOneLevel(escalateOneLevel(ROUTINE)) = EMERGENCY
  /\ (Evaluated /\ evalResult.uncertainty.triggered)
       => LevelRank(evalResult.level) >= LevelRank(evalResult.uncertainty.escalatedFrom)

\* A decision the engine escalated from ROUTINE to URGENT.
C22_Witness ==
  /\ Evaluated
  /\ evalResult.uncertainty.triggered
  /\ evalResult.uncertainty.escalatedFrom = ROUTINE
  /\ evalResult.uncertainty.escalatedTo = escalateOneLevel(ROUTINE)
  /\ evalResult.level = URGENT

\* C23: in every decision the score total is the sum of the three domain scores,
\* and no score is negative, with and without fired red flags.
C23_TotalIsSumOfDomains ==
  Evaluated =>
    /\ evalResult.scoreBreakdown.total
       = evalResult.scoreBreakdown.mentalHealth
         + evalResult.scoreBreakdown.pelvicFloorAndRecovery
         + evalResult.scoreBreakdown.historyAndContext
    /\ evalResult.scoreBreakdown.mentalHealth >= 0
    /\ evalResult.scoreBreakdown.pelvicFloorAndRecovery >= 0
    /\ evalResult.scoreBreakdown.historyAndContext >= 0
    /\ RedFlagHolds(evalInput) => evalResult.scoreBreakdown.total = 0

\* A scored decision with points from the mental-health and the history domain.
C23_Witness ==
  /\ Evaluated /\ ~RedFlagHolds(evalInput)
  /\ evalResult.scoreBreakdown.mentalHealth = 2
  /\ evalResult.scoreBreakdown.historyAndContext = 1
  /\ evalResult.scoreBreakdown.total = 3

\* The dominance the specification derives from a score: a domain leads when it
\* has at least 2 points more than the other.
Dominance(score) ==
  IF score.mentalHealth - score.pelvicFloorAndRecovery >= 2 THEN "mental"
  ELSE IF score.pelvicFloorAndRecovery - score.mentalHealth >= 2 THEN "pelvic"
  ELSE "mixed"

Dominances == {"mental", "pelvic", "mixed"}

\* The route and the timeframe fixed for a level and a dominance.
ExpectedPlan(level, dominance) ==
  [level |-> level,
   primaryRoute |->
     IF level = EMERGENCY THEN "CALL_EMERGENCY_112"
     ELSE IF level = ROUTINE THEN "ROUTINE_POSTPARTUM_FOLLOWUP"
     ELSE IF dominance = "mental" THEN "SAME_DAY_MENTAL_HEALTH_ASSESSMENT"
     ELSE IF dominance = "pelvic" THEN "SAME_DAY_OBGYN_OR_HAUSARZT"
     ELSE "SAME_DAY_MIXED_MENTAL_AND_OBGYN",
   timeframe |->
     IF level = EMERGENCY THEN "NOW"
     ELSE IF level = URGENT THEN "TODAY" ELSE "WITHIN_7_DAYS"]

\* C24: buildActionPlan gives each of the nine pairs of level and dominance its one
\* fixed route and timeframe, the emergency plan for EMERGENCY whatever the
\* dominance; the plan of every decision is the plan of its level and of the
\* dominance of its score, and carries the level of the decision.
C24_PlanIsFunctionOfLevelAndDominance ==
  /\ \A level \in Levels, dominance \in Dominances :
       buildActionPlan(level, dominance) = ExpectedPlan(level, dominance)
  /\ Evaluated =>
       /\ evalResult.actionPlan
          = ExpectedPlan(evalResult.level, Dominance(evalResult.scoreBreakdown))
       /\ evalResult.actionPlan.level = evalResult.level

\* An URGENT decision whose mental-health score leads by exactly 2 points.
C24_Witness ==
  /\ Evaluated
  /\ evalResult.level = URGENT
  /\ evalResult.scoreBreakdown.mentalHealth
     = evalResult.scoreBreakdown.pelvicFloorAndRecovery + 2
  /\ evalResult.actionPlan.primaryRoute = "SAME_DAY_MENTAL_HEALTH_ASSESSMENT"
  /\ evalResult.actionPlan.timeframe = "TODAY"

\* The predicate of each red flag as the specification lists it.
RedFlagPredicate(id, i) ==
  IF id = "PP_RF001"
  THEN i.b.suicidalIdeationNow = "true" /\ i.b.suicidalIntentOrPlan = "true"
  ELSE IF id = "PP_RF002" THEN i.b.thoughtsOfHarmingBaby = "true"
  ELSE IF id = "PP_RF003" THEN i.b.psychosisWarningSigns = "true"
  ELSE IF id = "PP_RF004" THEN i.b.heavyBleedingEmergencyPattern = "true"
  ELSE IF id = "PP_RF005" THEN i.b.highFeverAndSeverePain = "true"
  ELSE \/ i.b.syncopeOrCollapse = "true"
       \/ i.b.chestPainOrSevereBreathlessness = "true"

\* C25: the redFlags list of every result has one entry per red flag of the rule
\* set, in the order of the rule set, and the entry's fired says whether the
\* flag's predicate holds for the input, on the emergency path as on the scored one.
C25_RedFlagsFullyEnumerated ==
  Evaluated =>
    /\ Len(evalResult.redFlags) = Len(evalRules.redFlagRules)
    /\ \A k \in 1..Len(evalRules.redFlagRules) :
         /\ evalResult.redFlags[k].id = evalRules.redFlagRules[k]
         /\ evalResult.redFlags[k].fired
            = RedFlagPredicate(evalRules.redFlagRules[k], evalInput)

\* An emergency decision under the reordered rule set, with the first flag fired
\* and the second one listed as not fired.
C25_Witness ==
  /\ Evaluated
  /\ evalResult.level = EMERGENCY
  /\ evalRules.redFlagRules[1] = "PP_RF006"
  /\ Len(evalResult.redFlags) = 6
  /\ evalResult.redFlags[1].fired
  /\ ~evalResult.redFlags[2].fired

\* A cookie that names a session row which has not expired.
ValidSession(cookie) ==
  /\ cookie \in DOMAIN sessions.rows
  /\ sessions.rows[cookie].expiresAt > clock

\* What the auth gate owes a request with this cookie: 401 and untouched tables
\* without a valid session, anything but 401 with one.
Gated(cookie) ==
  IF ValidSession(cookie) THEN resp'.status # 401
  ELSE resp'.status = 401 /\ cases' = cases /\ changes' = changes

\* The step is the answer to a patch request or to a read of the change history.
GatedRequest ==
  /\ resp'.op \in {"patch", "changes"}
  /\ <<cases, changes, sessions, resp, okPatches>>'
     # <<cases, changes, sessions, resp, okPatches>>

\* C26: a patch request or a read of the change history without a cookie, with an
\* unknown cookie, or with the cookie of an expired or logged-out session is
\* answered 401 and leaves the case table and the ledger as they were; with the
\* cookie of a session that a login created and that is still there, it is not
\* answered 401.
C26_AuthGate == [][GatedRequest => Gated(resp'.cookie)]_vars

\* C27: a patch that finds the database busy finds it busy with a transaction on
\* its own case: no patch is refused or held up because of a transaction in
\* progress on another case.
C27_OtherCasesDoNotBlock ==
  [][(resp' # resp /\ resp'.op = "patch" /\ resp'.threw = "begin") =>
       \A q \in Conns : tx[q].pc # "idle" => tx[q].eventId = resp'.eventId]_vars

\* A request body that asks for each status.
StatusBody ==
  [s \in Statuses |->
     IF s = "NEW" THEN "w_new" ELSE IF s = "IN_PROGRESS" THEN "w_progress"
     ELSE IF s = "WAITING" THEN "w_waiting" ELSE "w_closed"]

\* C28: whatever the status of a stored case is, a workflow patch that asks for any
\* of the four statuses passes the validation and would write that status, and
\* every such patch is answered 200 and leaves the case with the status asked for.
C28_AnyStatusFollowsAny ==
  /\ [](\A p \in Conns, id \in PatchIds, s \in Statuses :
         /\ Validate("WORKFLOW_UPDATE", TRUE, id, StatusBody[s]) = 0
         /\ id \in DOMAIN cases =>
              apply("WORKFLOW_UPDATE", normalizeEvent(cases[id]),
                    PatchOf("WORKFLOW_UPDATE", StatusBody[s]), EditorOf(p),
                    clock).workflow.status = s)
  /\ [][\A p \in Conns, id \in PatchIds, s \in Statuses :
         Patch(p, "WORKFLOW_UPDATE", id, StatusBody[s]) =>
           /\ resp'.status = 200
           /\ cases'[id].workflow.status = s]_vars

\* A case that was closed and then reopened as NEW.
C28_Witness ==
  /\ Len(changes) = 2
  /\ changes[2].changeType = "WORKFLOW_UPDATE"
  /\ changes[2].before.workflow.status = "CLOSED"
  /\ changes[2].after.workflow.status = "NEW"
  /\ cases[changes[2].eventId].workflow.status = "NEW"

\* A list read backwards.
Reversed(s) == [k \in 1..Len(s) |-> s[Len(s) + 1 - k]]

AllOf == Finite(200, FALSE)
JustOne == Finite(1, FALSE)

\* C29: the list of recent cases never has a case before one that was created
\* later, and the list of recent changes is the ledger read backwards; directly
\* after a case is created the list of one recent case consists of that case,
\* directly after a successful patch the list of one recent change consists of
\* its ledger row, and a list the recent route answered with limit 1 holds a case
\* no other case is newer than.
C29_NewestFirst ==
  /\ [](LET all == getRecent(cases, AllOf)
        IN /\ Len(all) = Cardinality(DOMAIN cases)
           /\ \A i, j \in 1..Len(all) : i < j => all[i].timestamp >= all[j].timestamp
           /\ readRecentChangeEvents(changes, AllOf) = Reversed(changes)
           /\ (resp.op = "recent" /\ resp.limit = 1 /\ DOMAIN cases # {}) =>
                /\ Len(resp.list) = 1
                /\ \A id \in DOMAIN cases : cases[id].timestamp <= resp.list[1].timestamp)
  /\ [][Created =>
          getRecent(cases', JustOne) = <<normalizeEvent(cases'[resp'.eventId])>>]_vars
  /\ [][(resp'.op = "patch" /\ Len(changes') = Len(changes) + 1) =>
          readRecentChangeEvents(changes', JustOne) = <<changes'[Len(changes')]>>]_vars

\* The recent route answered with the second case, created a second after the
\* first one, while the ledger holds two rows written at different times.
C29_Witness ==
  /\ resp.op = "recent" /\ resp.limit = 1
  /\ EventIdOf(2) \in DOMAIN cases
  /\ datetime(cases[EventIdOf(2)].timestamp) > datetime(cases[EventIdOf(1)].timestamp)
  /\ resp.list = <<normalizeEvent(cases[EventIdOf(2)])>>
  /\ Len(changes) = 2
  /\ changes[2].timestamp > changes[1].timestamp
  /\ readRecentChangeEvents(changes, AllOf)[1] = changes[2]

\* The number a limit parameter asks for, NaN when it is not a number.
RequestedNumber(raw) ==
  IF raw = "1" THEN Finite(1, FALSE) ELSE IF raw = "2" THEN Finite(2, FALSE)
  ELSE IF raw = "200" THEN Finite(200, FALSE) ELSE IF raw = "201" THEN Finite(201, FALSE)
  ELSE IF raw = "0" THEN Finite(0, FALSE) ELSE IF raw = "-3" THEN Finite(-3, FALSE)
  ELSE IF raw = "0.5" THEN Finite(0, TRUE) ELSE IF raw = "2.5" THEN Finite(2, TRUE)
  ELSE NonFinite("NaN")

\* The effective limit agrees with what the specification gives a requested
\* limit: 50 for one that is not finite, zero or negative, else the requested
\* number of rows, at least 1 and at most 200, a fraction of a row not counted.
LimitAgrees(effective, n) ==
  IF n.kind # "finite" \/ n.whole < 0 \/ (n.whole = 0 /\ ~n.half) THEN effective = 50
  ELSE /\ effective >= 1
       /\ effective <= 200
       /\ n.whole >= 1 => effective = MinOf(n.whole, 200)

SampleNumbers ==
  {RequestedNumber(raw) : raw \in RawLimits}
    \cup {NonFinite("Infinity"), NonFinite("-Infinity"), Finite(-1, TRUE)}

C31_TransactionsEnd ==
  /\ [][\A p \in Conns :
          (TxCommit(p) \/ TxFails(p)) => tx'[p].pc = "idle"]_vars
  /\ [][(resp' # resp /\ resp'.op = "patch" /\ resp'.status \in {400, 404}) =>
          tx' = tx]_vars
  /\ \A p \in Conns : (tx[p].pc # "idle") ~> (tx[p].pc = "idle")

\* A patch was answered 500 because COMMIT threw, and no transaction is open.
C31_Witness ==
  /\ resp.op = "patch" /\ resp.status = 500 /\ resp.threw = "commit"
  /\ \A p \in Conns : tx[p].pc = "idle" /\ LockFree(p)

\* What a stored case keeps of the red-flag trace, of the confidence trace, of the
\* uncertainty record and of the action plan of its decision.
StoredRedFlags(e) ==
  [i \in 1..Len(e.firedRedFlagIds) |-> [id |-> e.firedRedFlagIds[i], fired |-> TRUE]]

StoredConfidence(e) ==
  [bucket |-> e.confidenceBucket, missingCriticalInputs |-> e.missingCriticalInputs]

StoredUncertainty(e) ==
  [triggered |-> e.escalatedByUncertainty,
   reasons |-> e.uncertaintyReasons,
   escalatedFrom |-> IF e.escalatedByUncertainty THEN e.baseLevel ELSE Absent,
   escalatedTo |-> IF e.escalatedByUncertainty THEN e.finalLevel ELSE Absent]

StoredActionPlan(e) ==
  [level |-> e.finalLevel, primaryRoute |-> e.primaryRoute, timeframe |-> e.timeframe]

\* The decision the create of this step was answered with.
CreatedResult == evaluatePostpartumTriage(SampleInput(resp'.body), SampleRules)

\* C32: the case a create stores holds every part of the decision it was created
\* from, level, isEmergency, the full red-flag trace, score breakdown, confidence,
\* uncertainty and action plan, with the values evaluate returned.
C32_DecisionEmbeddedVerbatim ==
  [][Created =>
       LET e == cases'[resp'.eventId]
           r == CreatedResult
       IN /\ e.finalLevel = r.level
          /\ e.isEmergency = r.isEmergency
          /\ e.scoreBreakdown = r.scoreBreakdown
          /\ StoredUncertainty(e) = r.uncertainty
          /\ StoredActionPlan(e) = r.actionPlan
          /\ StoredRedFlags(e) = r.redFlags
          /\ StoredConfidence(e) = r.confidence]_vars

\* The parts of C32 that the stored case does carry.
C32_SummaryEmbedded ==
  [][Created =>
       LET e == cases'[resp'.eventId]
           r == CreatedResult
       IN /\ e.finalLevel = r.level
          /\ e.isEmergency = r.isEmergency
          /\ e.scoreBreakdown = r.scoreBreakdown
          /\ StoredUncertainty(e) = r.uncertainty
          /\ StoredActionPlan(e) = r.actionPlan
          /\ e.firedRedFlagIds = FiredIds(r.redFlags)
          /\ e.confidenceBucket = r.confidence.bucket
          /\ e.missingCriticalInputs = r.confidence.missingCriticalInputs]_vars

\* The identity and the decision of a case.
DecisionPart(e) ==
  [eventId |-> e.eventId, timestamp |-> e.timestamp, finalLevel |-> e.finalLevel,
   baseLevel |-> e.baseLevel, isEmergency |-> e.isEmergency,
   scoreBreakdown |-> e.scoreBreakdown, firedRedFlagIds |-> e.firedRedFlagIds,
   primaryRoute |-> e.primaryRoute, timeframe |-> e.timeframe]

\* A patch of the given type was answered 200 in this step.
Patched(changeType) ==
  resp' # resp /\ resp'.op = "patch" /\ resp'.status = 200 /\ resp'.changeType = changeType

\* C33: no step changes the id, the creation time or the decision of a case that
\* exists; an outcome patch leaves the workflow as the store reads it unchanged,
\* also when it sets resolved = true, and a workflow patch leaves the outcome
\* as the store reads it unchanged.
C33_PatchFrame ==
  [][\A id \in DOMAIN cases :
       /\ id \in DOMAIN cases'
       /\ DecisionPart(cases'[id]) = DecisionPart(cases[id])
       /\ Patched("OUTCOME_UPDATE") =>
            normalizeEvent(cases'[id]).workflow = normalizeEvent(cases[id]).workflow
       /\ Patched("WORKFLOW_UPDATE") =>
            normalizeEvent(cases'[id]).outcome = normalizeEvent(cases[id]).outcome]_vars

\* A case was patched once in its workflow and once in its outcome, the outcome
\* is resolved, the workflow is not closed and the decision is the one of the
\* create.
C33_Witness ==
  \E id \in DOMAIN cases :
    /\ Len(changes) = 2
    /\ {changes[i].changeType : i \in 1..2} = {"OUTCOME_UPDATE", "WORKFLOW_UPDATE"}
    /\ \A i \in 1..2 : changes[i].eventId = id
    /\ cases[id].outcome.resolved = "true"
    /\ cases[id].workflow.status # "CLOSED"
    /\ DecisionPart(cases[id]) =
         DecisionPart(createPostpartumAuditEvent(id,
           evaluatePostpartumTriage(SampleInput("urgent"), SampleRules),
           cases[id].timestamp))

\* The request body has at least one field, and every field it has is null.
NullOnly(raw, changeType) ==
  /\ \E f \in SubFields(changeType) : raw[f].k = "null"
  /\ \A f \in PatchFields : raw[f].k \in {"null", "missing"}

\* C34: a successful patch removes every nullable field the request holds as null
\* from the stored sub-record and leaves every field the request omits as it was
\* read; a request of null fields only passes validation as a non-empty patch and
\* adds one row to the ledger.
C34_NullClearsOmittedKeeps ==
  [][\A ct \in ChangeTypes :
       /\ \A body \in PatchBodies(ct) :
            NullOnly(BodyOf(ct, body), ct) => Validate(ct, TRUE, EventIdOf(1), body) = 0
       /\ Patched(ct) =>
            LET raw == BodyOf(ct, resp'.body)
                id == resp'.eventId
                before == normalizeEvent(cases[id])
            IN /\ \A f \in SubFields(ct) \ {"status"} :
                    raw[f].k = "null" => FieldOf(cases'[id], f) = Absent
               /\ \A f \in SubFields(ct) :
                    raw[f].k = "missing" => FieldOf(cases'[id], f) = FieldOf(before, f)
               /\ Len(changes') = Len(changes) + 1]_vars

\* The second patch of a case held only care_type: null; the care type the first
\* patch had set is gone, the other fields of that patch are kept.
C34_Witness ==
  /\ resp.op = "patch" /\ resp.status = 200
  /\ NullOnly(BodyOf(resp.changeType, resp.body), resp.changeType)
  /\ Len(changes) = 2
  /\ changes[2].eventId = resp.eventId
  /\ changes[2].before.outcome.care_type = "OBGYN"
  /\ cases[resp.eventId].outcome.care_type = Absent
  /\ cases[resp.eventId].outcome.care_time = changes[2].before.outcome.care_time
  /\ cases[resp.eventId].outcome.care_time # Absent
  /\ cases[resp.eventId].outcome.notes # Absent

\* The key is inside a block the attempts so far have brought about.
InBlock == lockout.since # NoTime /\ clock < lockout.since + AUTH_COOLDOWN

\* C35: the failed login that completes AUTH_MAX_FAILED_ATTEMPTS in a row is not
\* let in and begins a block of the cool-down period; every login during the
\* block is answered 429 and opens no session, with the right password too; a
\* login with the right password outside a block is answered 200 with a session.
C35_LoginLockout ==
  [][\A credentials \in {"right", "wrong"} :
       Login("p1", credentials) =>
         /\ InBlock => resp'.status = 429 /\ sessions' = sessions
         /\ (~InBlock /\ credentials = "wrong") =>
              /\ resp'.status \in {401, 429} /\ sessions' = sessions
              /\ lockout.streak + 1 = AUTH_MAX_FAILED_ATTEMPTS =>
                   lockout'.since = clock /\ lockout'.streak = 0
         /\ (~InBlock /\ credentials = "right") =>
              /\ resp'.status = 200
              /\ sessions'.issued = sessions.issued + 1
              /\ resp'.cookie \in DOMAIN sessions'.rows
              /\ sessions'.rows[resp'.cookie].expiresAt > clock]_vars

\* A block began, a login with the right password was refused during it, and a
\* login with the right password after the cool-down period was let in.
C35_Witness ==
  /\ resp.op = "login" /\ resp.status = 200 /\ resp.body = "right"
  /\ lockout.since # NoTime /\ lockout.refused
  /\ clock >= lockout.since + AUTH_COOLDOWN
  /\ ValidSession(resp.cookie)

\* No red-flag entry of the decision fired.
NoneFired == ~AnyFired(evalResult.redFlags)

\* C36: a decision without a fired red flag is EMERGENCY exactly when its score
\* total has reached the threshold and uncertainty is triggered; below the
\* threshold uncertainty leads to URGENT at most.
C36_EmergencyNeedsThresholdAndUncertainty ==
  (Evaluated /\ NoneFired) =>
    /\ evalResult.level = EMERGENCY <=>
         /\ evalResult.scoreBreakdown.total >= evalRules.urgentSameDayMin
         /\ evalResult.uncertainty.triggered
    /\ evalResult.scoreBreakdown.total < evalRules.urgentSameDayMin =>
         evalResult.level \in {ROUTINE, URGENT}

\* Uncertainty lifted a score at the threshold to EMERGENCY without a red flag.
C36_Witness ==
  /\ Evaluated /\ NoneFired
  /\ evalResult.level = EMERGENCY
  /\ evalResult.uncertainty.triggered
  /\ evalResult.scoreBreakdown.total >= evalRules.urgentSameDayMin

\* The reasons of the decision, as a set.
ReasonSet ==
  {evalResult.uncertainty.reasons[i] : i \in DOMAIN evalResult.uncertainty.reasons}

\* C37: without a fired red flag uncertainty is triggered exactly when the
\* cannot-answer flag is true or the bucket is LOW; two missing critical inputs
\* trigger it without the more-than-two reason, which appears from three on; and
\* the reasons more-than-two-missing, major-inconsistency and user-uncertain never
\* come without low-confidence.
C37_UncertaintyTrigger ==
  (Evaluated /\ NoneFired) =>
    /\ evalResult.uncertainty.triggered <=>
         \/ evalInput.b.cannotAnswerCriticalQuestions = "true"
         \/ evalResult.confidence.bucket = "LOW"
    /\ Cardinality(MissingCritical) = 2 =>
         /\ evalResult.uncertainty.triggered
         /\ "missingMoreThanTwoCriticalInputs" \notin ReasonSet
    /\ Cardinality(MissingCritical) >= 3 =>
         "missingMoreThanTwoCriticalInputs" \in ReasonSet
    /\ ReasonSet \cap {"missingMoreThanTwoCriticalInputs", "majorInconsistency",
                        "userUncertainOnSafetyQuestions"} # {} =>
         "lowConfidence" \in ReasonSet

\* Exactly two critical inputs are missing, nothing else is uncertain, and the
\* decision is escalated with low confidence as its only reason.
C37_Witness ==
  /\ Evaluated /\ NoneFired
  /\ Cardinality(MissingCritical) = 2
  /\ evalInput.b.cannotAnswerCriticalQuestions # "true"
  /\ evalResult.uncertainty.triggered
  /\ evalResult.uncertainty.reasons = <<"lowConfidence">>
  /\ evalResult.uncertainty.escalatedFrom # Absent

\* The mental-health weights of the answers that are true.
MentalAnswers ==
  SeqSum(evalRules.scoring, MentalFields, evalInput)

\* One of depressed mood, anxiety or panic, anhedonia is answered true.
MoodSymptom ==
  \E f \in {"depressedMoodMostDays", "anxietyOrPanicMostDays", "anhedonia"} :
    evalInput.b[f] = "true"

\* C38: the mental-health score is the sum of the weights of the true answers,
\* plus the late-onset bonus exactly when weeksPostpartum is given and above 6
\* and a mood symptom is true.
C38_LateOnsetBonus ==
  (Evaluated /\ NoneFired) =>
    evalResult.scoreBreakdown.mentalHealth =
      MentalAnswers
      + (IF evalInput.weeksPostpartum # NoWeeks /\ evalInput.weeksPostpartum > 6
            /\ MoodSymptom
         THEN evalRules.scoring.lateOnsetAfter6Weeks ELSE 0)

\* A mood symptom in the sixth week: no bonus.
C38_Witness ==
  /\ Evaluated /\ NoneFired
  /\ MoodSymptom
  /\ evalInput.weeksPostpartum = 6
  /\ evalResult.scoreBreakdown.mentalHealth = MentalAnswers
  /\ evalRules.scoring.lateOnsetAfter6Weeks > 0

\* A critical key is given: the field is not absent, for the aggregate key one of
\* the two functional-impairment fields is not absent.
Given(key) ==
  IF key = "functionalImpairmentOverall"
  THEN \E f \in {"functionalImpairmentMental", "functionalImpairmentPelvic"} :
         evalInput.b[f] \in {"true", "false"}
  ELSE IF key = "weeksPostpartum" THEN evalInput.weeksPostpartum # NoWeeks
  ELSE IF key = "inconsistencyLevel" THEN evalInput.inconsistencyLevel # Absent
  ELSE evalInput.b[key] \in {"true", "false"}

\* C39: the status of every critical key of the rule set says whether the key is
\* given, an answer of false being given, and missingCriticalInputs is the number
\* of critical keys that are not given.
C39_MissingCountsAbsentKeys ==
  Evaluated =>
    /\ DOMAIN evalResult.confidence.criticalInputsStatus = evalRules.criticalInputs
    /\ \A key \in evalRules.criticalInputs :
         evalResult.confidence.criticalInputsStatus[key] <=> Given(key)
    /\ evalResult.confidence.missingCriticalInputs =
         Cardinality({key \in evalRules.criticalInputs : ~Given(key)})

\* Suicidal ideation is answered false and only the pelvic functional-impairment
\* field is given, as false: both keys count as given, nothing is missing.
C39_Witness ==
  /\ Evaluated
  /\ evalInput.b.suicidalIdeationNow = "false"
  /\ evalInput.b.functionalImpairmentMental = Absent
  /\ evalInput.b.functionalImpairmentPelvic = "false"
  /\ "functionalImpairmentOverall" \in evalRules.criticalInputs
  /\ evalResult.confidence.criticalInputsStatus["functionalImpairmentOverall"]
  /\ evalResult.confidence.criticalInputsStatus["suicidalIdeationNow"]
  /\ evalResult.confidence.missingCriticalInputs = 0

====
